---- MODULE Spec2Model ----
(***************************************************************************)
(* Line clipping (Cohen-Sutherland, Liang-Barsky) of the CGV-BEI labs.     *)
(*                                                                         *)
(* The clippers are Python functions over floats.  Python's float is IEEE  *)
(* 754 binary64 and its + - * / round to nearest, ties to even; x / 0      *)
(* raises ZeroDivisionError.  The model computes with the same numbers: a  *)
(* finite double is a record [s, e, h, l] standing for                     *)
(*     (-1)^s * (h * 2^26 + l) * 2^e                                       *)
(* with the 53-bit significand h * 2^26 + l in [2^52, 2^53), or FZero.     *)
(* The sign of zero is not kept (Python compares 0.0 == -0.0 as equal),    *)
(* and the inputs of the model stay far from overflow and underflow.       *)
(***************************************************************************)
EXTENDS Integers, Sequences, FiniteSets, TLC

\* ------------------------------------------------------------------------
\* binary64 arithmetic
\* ------------------------------------------------------------------------

B13 == 2^13
B26 == 2^26
B27 == 2^27

FZero == [s |-> 0, e |-> 0, h |-> 0, l |-> 0]

IsZero(a) == a.h = 0 /\ a.l = 0

\* number of bits of a natural n < 2^30
RECURSIVE BitLen(_)
BitLen(n) == IF n = 0 THEN 0 ELSE 1 + BitLen(n \div 2)

\* int -> float (|n| < 2^27), exact
FromInt(n) ==
  IF n = 0 THEN FZero
  ELSE LET a == IF n < 0 THEN -n ELSE n
           k == BitLen(a)
       IN [s |-> IF n < 0 THEN 1 ELSE 0, e |-> k - 53,
           h |-> a * 2^(27 - k), l |-> 0]

FNeg(a) == IF IsZero(a) THEN a ELSE [a EXCEPT !.s = 1 - a.s]

\* |a| < |b| for nonzero a, b
MagLt(a, b) ==
  \/ a.e < b.e
  \/ a.e = b.e /\ (a.h < b.h \/ (a.h = b.h /\ a.l < b.l))

FLt(a, b) ==
  IF IsZero(a) THEN (~IsZero(b) /\ b.s = 0)
  ELSE IF IsZero(b) THEN a.s = 1
  ELSE IF a.s # b.s THEN a.s = 1
  ELSE IF a.s = 0 THEN MagLt(a, b) ELSE MagLt(b, a)

FGt(a, b) == FLt(b, a)
FLe(a, b) == ~FLt(b, a)

\* Round the significand m = h * 2^26 + l in [2^52, 2^53), scaled by 2^e, up by
\* one unit when up is TRUE (renormalising 2^53 to 2^52 * 2).
RoundUp(s, e, h, l, up) ==
  IF ~up THEN [s |-> s, e |-> e, h |-> h, l |-> l]
  ELSE IF l + 1 < B26 THEN [s |-> s, e |-> e, h |-> h, l |-> l + 1]
  ELSE IF h + 1 < B27 THEN [s |-> s, e |-> e, h |-> h + 1, l |-> 0]
  ELSE [s |-> s, e |-> e + 1, h |-> B26, l |-> 0]

\* Carry propagation: columns of a product in base 2^13, least significant
\* first, to digits below 2^13; the last element keeps what is left over.
RECURSIVE Carry(_, _)
Carry(cols, c) ==
  IF Len(cols) = 1 THEN <<cols[1] + c>>
  ELSE <<(cols[1] + c) % B13>> \o Carry(Tail(cols), (cols[1] + c) \div B13)

\* the significand h * 2^26 + l in 13-bit limbs, least significant first
Limbs13(a) == <<a.l % B13, a.l \div B13, a.h % B13, a.h \div B13>>

\* the 106-bit product of two significands: six digits and the top part
MulCols(x, y) ==
  Carry(<<x[1] * y[1],
          x[1] * y[2] + x[2] * y[1],
          x[1] * y[3] + x[2] * y[2] + x[3] * y[1],
          x[1] * y[4] + x[2] * y[3] + x[3] * y[2] + x[4] * y[1],
          x[2] * y[4] + x[3] * y[3] + x[4] * y[2],
          x[3] * y[4] + x[4] * y[3],
          x[4] * y[4]>>, 0)

\* Round the product pr * 2^e to 53 bits: pr = T * 2^52 + Lo with
\* T = pr[7] * 2^26 + pr[6] * 2^13 + pr[5] in [2^52, 2^54)
MulRound(s, e, pr) ==
  LET tl == pr[5] + pr[6] * B13
      lowNZ == pr[1] # 0 \/ pr[2] # 0 \/ pr[3] # 0
  IN IF pr[7] >= B27
     THEN \* 106-bit product: drop one more bit
          LET l == (pr[7] % 2) * (B26 \div 2) + (tl \div 2)
          IN RoundUp(s, e + 53, pr[7] \div 2, l,
                     tl % 2 = 1 /\ (pr[4] # 0 \/ lowNZ \/ l % 2 = 1))
     ELSE RoundUp(s, e + 52, pr[7], tl,
                  /\ pr[4] >= (B13 \div 2)
                  /\ ((pr[4] % (B13 \div 2)) # 0 \/ lowNZ \/ tl % 2 = 1))

\* a * b, correctly rounded
FMul(a, b) ==
  IF IsZero(a) \/ IsZero(b) THEN FZero
  ELSE MulRound(IF a.s = b.s THEN 0 ELSE 1, a.e + b.e,
                MulCols(Limbs13(a), Limbs13(b)))

B11 == 2^11
B18 == 2^18

\* r - d >= 0 for r, d given in 18-bit limbs <<top, mid, low>>
GeqLimbs(r, d) ==
  \/ r[1] > d[1]
  \/ r[1] = d[1] /\ (r[2] > d[2] \/ (r[2] = d[2] /\ r[3] >= d[3]))

\* r - qd * d in 18-bit limbs, for a result that is not negative
SubMul(r, qd, d) ==
  LET s0 == r[3] - qd * d[3]
      s1 == r[2] - qd * d[2] + (s0 \div B18)
  IN <<r[1] - qd * d[1] + (s1 \div B18), s1 % B18, s0 % B18>>

\* <<digit, remainder>> with the remainder brought below d
RECURSIVE DivFix(_, _, _)
DivFix(qd, r, d) ==
  IF ~GeqLimbs(r, d) THEN <<qd, r>>
  ELSE DivFix(qd + 1, SubMul(r, 1, d), d)

\* r * 2^11, the top limb left unreduced
Shift11(r) ==
  LET t0 == r[3] * B11
      t1 == r[2] * B11 + (t0 \div B18)
  IN <<r[1] * B11 + (t1 \div B18), t1 % B18, t0 % B18>>

\* the digit estimated from the top limbs (never too large), then corrected
DivEst(n, d) == DivFix(n[1] \div (d[1] + 1), SubMul(n, n[1] \div (d[1] + 1), d), d)

\* One quotient digit of 11 bits: for r < d, <<floor(r * 2^11 / d), the
\* remainder>>
DivDigit(r, d) == DivEst(Shift11(r), d)

\* the digit of g, then k further digits of 11 bits, then the last remainder
RECURSIVE DivSteps(_, _, _)
DivSteps(g, d, k) ==
  <<g[1]>> \o (IF k = 0 THEN <<g[2]>> ELSE DivSteps(DivDigit(g[2], d), d, k - 1))

\* the significand h * 2^26 + l in 18-bit limbs <<top, mid, low>>
Limbs(a) == <<a.h \div 2^10, (a.h % 2^10) * 2^8 + (a.l \div B18), a.l % B18>>

\* 2 * r in 18-bit limbs, the top limb left unreduced
Dbl(r) ==
  LET m1 == 2 * r[2] + ((2 * r[3]) \div B18)
  IN <<2 * r[1] + (m1 \div B18), m1 % B18, (2 * r[3]) % B18>>

\* Round the quotient g = <<1, five digits of 11 bits, remainder>>, i.e. 53
\* bits, the rounding bit and two more, scaled by 2^e
DivRound(s, e, g) ==
  LET l == (g[4] % 2^7) * 2^19 + g[5] * 2^8 + (g[6] \div 8)
  IN RoundUp(s, e, B26 + g[2] * 2^15 + g[3] * 2^4 + (g[4] \div 2^7), l,
             /\ (g[6] \div 4) % 2 = 1
             /\ (g[6] % 4 # 0 \/ g[7] # <<0, 0, 0>> \/ l % 2 = 1))

\* a / b for b # 0, correctly rounded, by long division; a's significand is
\* doubled when it is below b's, so that the quotient starts with a 1
FDiv(a, b) ==
  IF IsZero(a) THEN FZero
  ELSE IF a.h < b.h \/ (a.h = b.h /\ a.l < b.l)
  THEN DivRound(IF a.s = b.s THEN 0 ELSE 1, a.e - b.e - 53,
                DivSteps(DivFix(0, Dbl(Limbs(a)), Limbs(b)), Limbs(b), 5))
  ELSE DivRound(IF a.s = b.s THEN 0 ELSE 1, a.e - b.e - 52,
                DivSteps(DivFix(0, Limbs(a), Limbs(b)), Limbs(b), 5))

\* <<h, l>> shifted right by d bits, the bits shifted out or-ed into bit 0
ShrJam(h, l, d) ==
  IF d = 0 THEN <<h, l>>
  ELSE IF d < 26 THEN
    LET p == 2^d
        out == l % p
        nl == (l \div p) + (h % p) * 2^(26 - d)
    IN <<h \div p, IF out # 0 /\ nl % 2 = 0 THEN nl + 1 ELSE nl>>
  ELSE IF d < 56 THEN
    LET p == 2^(d - 26)
        out == l # 0 \/ (h % p) # 0
        v  == h \div p
        nl == v % B26
    IN <<v \div B26, IF out /\ nl % 2 = 0 THEN nl + 1 ELSE nl>>
  ELSE <<0, IF h # 0 \/ l # 0 THEN 1 ELSE 0>>

\* Shift <<h, l>> (nonzero, below 2^56) left until bit 55 is set; <<h, l, shifts>>
RECURSIVE NormLeft(_, _, _)
NormLeft(h, l, n) ==
  IF h >= 2^29 THEN <<h, l, n>>
  ELSE NormLeft(2 * h + ((2 * l) \div B26), (2 * l) % B26, n + 1)

\* the significand with three extra low bits, as <<h, l>>
Ext(a) == <<a.h * 8 + (a.l \div 2^23), (a.l % 2^23) * 8>>

\* x + y or x - y (x >= y) on <<h, l>> pairs
AddSig(x, y, same) ==
  LET tl == IF same THEN x[2] + y[2] ELSE x[2] - y[2]
  IN <<IF same THEN x[1] + y[1] + (tl \div B26)
       ELSE x[1] - y[1] - (IF tl < 0 THEN 1 ELSE 0),
       IF tl < 0 THEN tl + B26 ELSE tl % B26>>

\* drop the three extra bits of n = <<h, l>>, rounding to nearest even
AddRound(s, e, n) ==
  LET l == (n[1] % 8) * 2^23 + (n[2] \div 8)
  IN RoundUp(s, e, n[1] \div 8, l, n[2] % 8 > 4 \/ (n[2] % 8 = 4 /\ l % 2 = 1))

\* n = <<h, l, shifts>> from NormLeft
AddShifted(s, e, n) == AddRound(s, e - n[3], n)

\* the sum r = <<h, l>> brought back to 56 bits
AddNorm(s, e, r) ==
  IF r = <<0, 0>> THEN FZero
  ELSE IF r[1] >= 2^30 THEN AddRound(s, e + 1, ShrJam(r[1], r[2], 1))
  ELSE AddShifted(s, e, NormLeft(r[1], r[2], 0))

\* x + y for |x| >= |y|, both nonzero
AddMag(x, y) ==
  AddNorm(x.s, x.e,
          AddSig(Ext(x), ShrJam(Ext(y)[1], Ext(y)[2], x.e - y.e), x.s = y.s))

\* a + b, correctly rounded
FAdd(a, b) ==
  IF IsZero(a) THEN b
  ELSE IF IsZero(b) THEN a
  ELSE IF MagLt(a, b) THEN AddMag(b, a) ELSE AddMag(a, b)

FSub(a, b) == FAdd(a, FNeg(b))


\* ------------------------------------------------------------------------
\* Bounds and inputs
\* ------------------------------------------------------------------------

\* coordinates are the doubles k/10, k in 0..MaxCoord (what float("0.k") reads)
MaxCoord == 4
\* the counter of intersection steps of one call stops counting here
MaxIter == 6

Tenth(k) == FDiv(FromInt(k), FromInt(10))

Coords == {Tenth(k) : k \in 0..MaxCoord}

\* windows <<x_min, y_min, x_max, y_max>> with the lower left corner at
\* (0.1, 0.1) and x_min <= x_max, y_min <= y_max
Windows ==
  {<<Tenth(1), Tenth(1), a, b>> : a, b \in {c \in Coords : FLe(Tenth(1), c)}}

Segments == Coords \X Coords \X Coords \X Coords

\* the largest coordinate, in tenths, of the windows given in any order
MaxAny == 3

AnyCoords == {Tenth(k) : k \in 1..MaxAny}

\* windows <<x_min, y_min, x_max, y_max>> of any four coordinates
AnyWindows == AnyCoords \X AnyCoords \X AnyCoords \X AnyCoords

AnySegments == AnyCoords \X AnyCoords \X AnyCoords \X AnyCoords

\* the floats of four ints
Floats(t) == <<FromInt(t[1]), FromInt(t[2]), FromInt(t[3]), FromInt(t[4])>>

\* the inputs the programs and the documented scenarios use: the window and
\* segment of Shrijan_BEI42/LAB7/Ex1.py and of Smarika Gyawali/Lab 6/1.py, the
\* segment crossing a window from below to above, one left of it, a point
ScenarioWindows ==
  {Floats(t) : t \in {<<10, 10, 100, 100>>, <<0, 0, 100, 100>>,
                      <<0, 0, 10, 10>>, <<2, 2, 8, 6>>}}
ScenarioSegments ==
  {Floats(t) : t \in {<<5, 5, 150, 150>>, <<50, -20, 50, 120>>,
                      <<-10, 50, -5, 60>>, <<0, 0, 0, 0>>, <<1, 4, 9, 5>>}}

\* 2^k as a float
Pow2(k) == [s |-> 0, e |-> k - 52, h |-> B26, l |-> 0]

\* coordinates of very different magnitudes
WideCoords == {FromInt(-1), FZero, Pow2(-61), Pow2(-60), FromInt(1)}
WideWindows ==
  {<<a, b, FromInt(1), FromInt(1)>> : a, b \in {FZero, Pow2(-60)}}
WideSegments == WideCoords \X WideCoords \X WideCoords \X WideCoords

\* ------------------------------------------------------------------------
\* Cohen-Sutherland: outcodes
\* ------------------------------------------------------------------------

INSIDE == 0
LEFT == 1
RIGHT == 2
BOTTOM == 4
TOP == 8

\* Python's a & b on the 4-bit codes
RECURSIVE BitAnd(_, _)
BitAnd(a, b) ==
  IF a = 0 \/ b = 0 THEN 0
  ELSE (a % 2) * (b % 2) + 2 * BitAnd(a \div 2, b \div 2)

\* compute_code with the window's left and bottom edges counted as outside
compute_code_open(x, y, x_min, y_min, x_max, y_max) ==
  (IF FLe(x, x_min) THEN LEFT ELSE IF FGt(x, x_max) THEN RIGHT ELSE INSIDE)
  + (IF FLe(y, y_min) THEN BOTTOM ELSE IF FGt(y, y_max) THEN TOP ELSE INSIDE)

compute_code(x, y, x_min, y_min, x_max, y_max) ==
  (IF FLt(x, x_min) THEN LEFT ELSE IF FGt(x, x_max) THEN RIGHT ELSE INSIDE)
  + (IF FLt(y, y_min) THEN BOTTOM ELSE IF FGt(y, y_max) THEN TOP ELSE INSIDE)

\* ------------------------------------------------------------------------
\* Results of a call
\* ------------------------------------------------------------------------

Pending == [kind |-> "pending", v |-> <<>>]
None == [kind |-> "None", v |-> <<>>]
ZeroDivisionError == [kind |-> "ZeroDivisionError", v |-> <<>>]
Returned(a, b, c, d) == [kind |-> "segment", v |-> <<a, b, c, d>>]


\* ------------------------------------------------------------------------
\* State
\* ------------------------------------------------------------------------

VARIABLES
  win,      \* the caller's window <<x_min, y_min, x_max, y_max>>
  seg,      \* the caller's segment <<x0, y0, x1, y1>>
  pc,       \* lb_call, lb_loop, lb_for, cs_call, cs_loop, done
  round,    \* 1: clip(seg, win); 2: clip(result of round 1, win)
  \* liang_barsky (while loop) locals
  dx, dy, p, q, i, u1, u2,
  nDiv,     \* divisions q[i] / p[i] executed by this call
  lbRes,    \* [1..2 -> result] of liang_barsky (while loop), per round
  lbForRes, \* [1..2 -> result] of liang_barsky (for loop), per round
  nDivFor,  \* divisions qi / pi executed by the last call of the for loop variant
  \* cohen_sutherland_clip locals
  x0, y0, x1, y1, code0, code1,
  nIter,    \* intersection branches executed by this call (stops at MaxIter)
  csRes,    \* [1..2 -> result] of cohen_sutherland_clip (returning variant)
  printed,  \* [1..2 -> lines printed by cohen_sutherland_clip (printing variant)]
  thr,      \* the frames of the invocations that run concurrently
  \* StockVisualizer.calculate_color
  change_pct, \* the argument
  channels,   \* <<int(r * 255), int(g * 255), int(b * 255)>> of line 76, <<>> before
  color,      \* the string returned, "" before the call
  \* StockDataFetcher.fetch_by_sector
  stocks_by_sector, \* the argument: the items <<sector, tickers>> of the dictionary
  fpc,              \* idle, sectors, tickers, returned, raised
  sector_i,         \* items of stocks_by_sector taken by the loop of line 172
  ticker_i,         \* tickers taken by the loop of line 140
  results,          \* the list of fetch_multiple_stocks
  result,           \* the dictionary of fetch_by_sector
  last_update,      \* assignments to self.last_update
  fetched,          \* per item, what the calls of fetch_single_stock returned
  \* bresenham_line and bresenham
  ends,             \* the arguments <<x0, y0, x1, y1>> of both
  lpc,              \* line, bresenham, drawn
  lineRes,          \* what bresenham_line returned
  bresRes,          \* what bresenham returned
  \* DDA (LAB8/Ex1.py) and dda (lab2/3.py, and the same in lab2/1.py, lab3/3a.py)
  dends,            \* the arguments <<x1, y1, x2, y2>> of both
  dpc,              \* DDA, dda, drawn
  DDARes,           \* what DDA returned
  ddaRes,           \* what dda returned, or the exception it raised
  \* midpoint_ellipse (lab5a.py; lab5c.py keeps the points of the regions apart)
  radii,            \* the arguments <<rx, ry>>; xc and yc are 0
  epc,              \* call, region1, region2, returned
  ell,              \* the locals rx2, ry2, x, y, p1, p2, xes, yes, and the
                    \* offsets passed to plot_ellipse_points
  ellRes,           \* what midpoint_ellipse returned
  \* main of snake_game.py
  snake,            \* the list of cells <<x, y>>, the head first
  direction,        \* the direction <<dx, dy>> applied by the last move
  pending,          \* the direction the next move applies
  food,             \* the food cell
  score,
  game_over,
  spc,              \* loop (line 36), events (line 39), exited
  handled           \* KEYDOWN events handled by this pass of the main loop

lbLocals == <<dx, dy, p, q, i, u1, u2, nDiv>>
csLocals == <<x0, y0, x1, y1, code0, code1, nIter>>
\* the state of one caller running the clippers one after the other
seqVars == <<win, seg, pc, round, lbLocals, lbRes, lbForRes, nDivFor,
             csLocals, csRes, printed>>
colorVars == <<change_pct, channels, color>>
fetchVars == <<stocks_by_sector, fpc, sector_i, ticker_i, results, result,
               last_update, fetched>>
bresVars == <<ends, lpc, lineRes, bresRes>>
\* the state of the drawing routines
ddaVars == <<dends, dpc, DDARes, ddaRes>>
ellVars == <<radii, epc, ell, ellRes>>
snakeVars == <<snake, direction, pending, food, score, game_over, spc, handled>>
drawVars == <<bresVars, ddaVars, ellVars, snakeVars>>
\* the state the clippers called one after the other do not touch
others == <<thr, colorVars, fetchVars, drawVars>>

vars == <<seqVars, others>>

F0 == FZero
F1 == FromInt(1)

NoResults == [r \in 1..2 |-> Pending]

\* fetch_by_sector is not called
NoFetch ==
  /\ stocks_by_sector = <<>> /\ fpc = "idle" /\ sector_i = 0 /\ ticker_i = 0
  /\ results = <<>> /\ result = <<>> /\ last_update = 0 /\ fetched = <<>>

\* bresenham_line and bresenham are not called
NoBres == ends = <<>> /\ lpc = "idle" /\ lineRes = Pending /\ bresRes = Pending

\* DDA and dda are not called
NoDda == dends = <<>> /\ dpc = "idle" /\ DDARes = Pending /\ ddaRes = Pending

\* midpoint_ellipse is not called
NoEll == radii = <<>> /\ epc = "idle" /\ ell = <<>> /\ ellRes = Pending

\* main of snake_game.py is not run
NoSnake ==
  /\ snake = <<>> /\ direction = <<0, 0>> /\ pending = <<0, 0>> /\ food = <<0, 0>>
  /\ score = 0 /\ game_over = FALSE /\ spc = "idle" /\ handled = 0

\* no drawing routine and no game is run
NoDraw == NoBres /\ NoDda /\ NoEll /\ NoSnake

\* calculate_color is not called
NoColor == change_pct = F0 /\ channels = <<>> /\ color = ""

\* the state when the caller has chosen a window of W and a segment of S
InitWith(W, S) ==
  /\ win \in W
  /\ seg \in S
  /\ pc = "lb_call"
  /\ round = 1
  /\ dx = F0 /\ dy = F0 /\ p = <<F0, F0, F0, F0>> /\ q = <<F0, F0, F0, F0>>
  /\ i = 0 /\ u1 = F0 /\ u2 = F1 /\ nDiv = 0
  /\ lbRes = NoResults /\ lbForRes = NoResults /\ nDivFor = 0
  /\ x0 = F0 /\ y0 = F0 /\ x1 = F0 /\ y1 = F0 /\ code0 = 0 /\ code1 = 0
  /\ nIter = 0
  /\ csRes = NoResults
  /\ printed = [r \in 1..2 |-> <<>>]
  /\ thr = <<>>
  /\ NoColor
  /\ NoFetch
  /\ NoDraw

Init == InitWith(Windows, Segments)

\* the arguments of the call of this round: the caller's segment, then the
\* segment the first call returned
ArgsOf(res) == IF round = 1 THEN seg ELSE res[1].v
HasArgs(res) == round = 1 \/ res[1].kind = "segment"

\* ------------------------------------------------------------------------
\* liang_barsky, while loop (Shrijan_BEI42/LAB7/Ex1.py)
\* ------------------------------------------------------------------------

\* lines 4-10
LBCall ==
  /\ pc = "lb_call"
  /\ HasArgs(lbRes)
  /\ LET a == ArgsOf(lbRes)
     IN /\ dx' = FSub(a[3], a[1])
        /\ dy' = FSub(a[4], a[2])
        /\ u1' = F0
        /\ u2' = F1
        /\ p' = <<FNeg(dx'), dx', FNeg(dy'), dy'>>
        /\ q' = <<FSub(a[1], win[1]), FSub(win[3], a[1]),
                  FSub(a[2], win[2]), FSub(win[4], a[2])>>
  /\ i' = 0
  /\ nDiv' = 0
  /\ pc' = "lb_loop"
  /\ UNCHANGED <<others, win, seg, round, lbRes, lbForRes, nDivFor, csLocals, csRes, printed>>

\* round 2 without a segment to clip again: nothing is called
LBSkip ==
  /\ pc = "lb_call"
  /\ ~HasArgs(lbRes)
  /\ pc' = "lb_for"
  /\ UNCHANGED <<others, win, seg, round, lbLocals, lbRes, lbForRes, nDivFor, csLocals, csRes, printed>>

\* the test of line 12 (line 13 of the for loop) taken as never true
Parallel_never(pi) == FALSE

\* line 12, p[i] == 0 (line 13 of the for loop, pi == 0): the segment is
\* parallel to the boundary
Parallel(pi) == IsZero(pi)

\* lines 12-14 going on to the next boundary instead of returning None
LBParallelReject_continue ==
  /\ pc = "lb_loop" /\ i < 4
  /\ Parallel(p[i + 1]) /\ FLt(q[i + 1], F0)
  /\ i' = i + 1
  /\ UNCHANGED <<others, win, seg, pc, round, dx, dy, p, q, u1, u2, nDiv,
                 lbRes, lbForRes, nDivFor, csLocals, csRes, printed>>

\* lines 12-14: p[i] == 0 and q[i] < 0
LBParallelReject ==
  /\ pc = "lb_loop" /\ i < 4
  /\ Parallel(p[i + 1]) /\ FLt(q[i + 1], F0)
  /\ lbRes' = [lbRes EXCEPT ![round] = None]
  /\ pc' = "lb_for"
  /\ UNCHANGED <<others, win, seg, round, lbLocals, lbForRes, nDivFor, csLocals, csRes, printed>>

\* lines 12-13, 23: p[i] == 0 and q[i] >= 0
LBParallelSkip ==
  /\ pc = "lb_loop" /\ i < 4
  /\ Parallel(p[i + 1]) /\ ~FLt(q[i + 1], F0)
  /\ i' = i + 1
  /\ UNCHANGED <<others, win, seg, pc, round, dx, dy, p, q, u1, u2, nDiv,
                 lbRes, lbForRes, nDivFor, csLocals, csRes, printed>>

\* lines 15-23: t = q[i] / p[i] tightens u1 (p[i] < 0) or u2 (p[i] > 0); a
\* zero p[i] in line 16 raises ZeroDivisionError out of the call
LBDivide ==
  /\ pc = "lb_loop" /\ i < 4
  /\ ~Parallel(p[i + 1])
  /\ nDiv' = nDiv + 1
  /\ IF IsZero(p[i + 1])
     THEN /\ lbRes' = [lbRes EXCEPT ![round] = ZeroDivisionError]
          /\ pc' = "lb_for"
          /\ UNCHANGED <<u1, u2, i>>
     ELSE /\ LET t == FDiv(q[i + 1], p[i + 1])
             IN IF FLt(p[i + 1], F0)
                THEN /\ u1' = IF FGt(t, u1) THEN t ELSE u1
                     /\ u2' = u2
                ELSE /\ u2' = IF FLt(t, u2) THEN t ELSE u2
                     /\ u1' = u1
          /\ i' = i + 1
          /\ UNCHANGED <<pc, lbRes>>
  /\ UNCHANGED <<others, win, seg, round, dx, dy, p, q,
                 lbForRes, nDivFor, csLocals, csRes, printed>>

\* lines 24-30
LBReturn ==
  /\ pc = "lb_loop" /\ i = 4
  /\ LET a == ArgsOf(lbRes)
     IN lbRes' = [lbRes EXCEPT ![round] =
          IF FGt(u1, u2) THEN None
          ELSE Returned(FAdd(a[1], FMul(u1, dx)), FAdd(a[2], FMul(u1, dy)),
                        FAdd(a[1], FMul(u2, dx)), FAdd(a[2], FMul(u2, dy)))]
  /\ pc' = "lb_for"
  /\ UNCHANGED <<others, win, seg, round, lbLocals, lbForRes, nDivFor, csLocals, csRes, printed>>


\* ------------------------------------------------------------------------
\* liang_barsky, for loop with max/min (Smarika Gyawali/Lab 6/1.py)
\* ------------------------------------------------------------------------

\* Python's max(a, b) and min(a, b): the first argument unless the second is
\* strictly larger (smaller)
PyMax_second(a, b) == b
PyMax(a, b) == IF FGt(b, a) THEN b ELSE a
PyMin(a, b) == IF FLt(b, a) THEN b ELSE a

\* lines 12-21 from boundary k on: <<how the loop ended, u1, u2, divisions>>,
\* the loop ending "through" its four boundaries, by the "reject" of line 15
\* or by the "raise" of a zero pi in line 17
RECURSIVE lb_for_loop(_, _, _, _, _, _)
lb_for_loop(pp, qq, k, v1, v2, n) ==
  IF k > 4 THEN <<"through", v1, v2, n>>
  ELSE IF Parallel(pp[k])
       THEN IF FLt(qq[k], F0) THEN <<"reject", v1, v2, n>>
            ELSE lb_for_loop(pp, qq, k + 1, v1, v2, n)
       ELSE IF IsZero(pp[k]) THEN <<"raise", v1, v2, n + 1>>
       ELSE LET t == FDiv(qq[k], pp[k])
            IN IF FLt(pp[k], F0)
               THEN lb_for_loop(pp, qq, k + 1, PyMax(v1, t), v2, n + 1)
               ELSE lb_for_loop(pp, qq, k + 1, v1, PyMin(v2, t), n + 1)

\* lines 22-31, r being what the loop left: <<result, divisions executed>>
lb_for_return(ax1, ay1, ddx, ddy, r) ==
  <<IF r[1] = "raise" THEN ZeroDivisionError
    ELSE IF r[1] = "reject" \/ FGt(r[2], r[3]) THEN None
    ELSE Returned(FAdd(ax1, FMul(r[2], ddx)), FAdd(ay1, FMul(r[2], ddy)),
                  FAdd(ax1, FMul(r[3], ddx)), FAdd(ay1, FMul(r[3], ddy))),
    r[4]>>

\* lines 6-21 with dx, dy of lines 4-5
lb_for_body(ax1, ay1, ddx, ddy, xmin, ymin, xmax, ymax) ==
  lb_for_return(ax1, ay1, ddx, ddy,
    lb_for_loop(<<FNeg(ddx), ddx, FNeg(ddy), ddy>>,
                <<FSub(ax1, xmin), FSub(xmax, ax1), FSub(ay1, ymin), FSub(ymax, ay1)>>,
                1, F0, F1, 0))

\* lines 3-31: <<result, divisions executed>>
liang_barsky_for(ax1, ay1, ax2, ay2, xmin, ymin, xmax, ymax) ==
  lb_for_body(ax1, ay1, FSub(ax2, ax1), FSub(ay2, ay1), xmin, ymin, xmax, ymax)

\* both variants are called for round 1, then for round 2; then the
\* Cohen-Sutherland calls follow, again round 1 first
AfterLB == IF round = 1 THEN "lb_call" ELSE "cs_call"

\* one whole call of the for-loop variant
LBFor ==
  /\ pc = "lb_for"
  /\ HasArgs(lbForRes)
  /\ \E r \in {liang_barsky_for(ArgsOf(lbForRes)[1], ArgsOf(lbForRes)[2],
                                 ArgsOf(lbForRes)[3], ArgsOf(lbForRes)[4],
                                 win[1], win[2], win[3], win[4])} :
       /\ lbForRes' = [lbForRes EXCEPT ![round] = r[1]]
       /\ nDivFor' = r[2]
  /\ pc' = AfterLB
  /\ round' = 3 - round
  /\ UNCHANGED <<others, win, seg, lbLocals, lbRes, csLocals, csRes, printed>>

LBForSkip ==
  /\ pc = "lb_for"
  /\ ~HasArgs(lbForRes)
  /\ pc' = AfterLB
  /\ round' = 3 - round
  /\ UNCHANGED <<others, win, seg, lbLocals, lbRes, lbForRes, nDivFor, csLocals, csRes, printed>>

\* ------------------------------------------------------------------------
\* cohen_sutherland_clip (Krrish Nyoupane/Lab 5/lineclippingvisualization.py,
\* returning; Aditya-Man-Shrestha/lab5/lineclipping.py, printing)
\* ------------------------------------------------------------------------

\* lines 19-20
CSCall ==
  /\ pc = "cs_call"
  /\ HasArgs(csRes)
  /\ LET a == ArgsOf(csRes)
     IN /\ x0' = a[1] /\ y0' = a[2] /\ x1' = a[3] /\ y1' = a[4]
        /\ code0' = compute_code(a[1], a[2], win[1], win[2], win[3], win[4])
        /\ code1' = compute_code(a[3], a[4], win[1], win[2], win[3], win[4])
  /\ nIter' = 0
  /\ pc' = "cs_loop"
  /\ UNCHANGED <<others, win, seg, round, lbLocals, lbRes, lbForRes, nDivFor, csRes, printed>>

CSSkip ==
  /\ pc = "cs_call"
  /\ ~HasArgs(csRes)
  /\ pc' = "done"
  /\ UNCHANGED <<others, win, seg, round, lbLocals, lbRes, lbForRes, nDivFor, csLocals, csRes, printed>>

\* the end of a call: round 1 is followed by round 2
AfterCS == IF round = 1 THEN "cs_call" ELSE "done"

\* what the printing variant prints in a terminal branch (lines 22-23, 26-27)
Lines(first) ==
  <<[text |-> first, v |-> <<>>],
    [text |-> "Clipped Line", v |-> <<x0, y0, x1, y1>>]>>

\* CSAccept returning the endpoints in the other order
CSAccept_swapped ==
  /\ pc = "cs_loop"
  /\ code0 = 0 /\ code1 = 0
  /\ csRes' = [csRes EXCEPT ![round] = Returned(x1, y1, x0, y0)]
  /\ printed' = [printed EXCEPT ![round] = Lines("Line is inside the clipping window")]
  /\ pc' = AfterCS
  /\ round' = 2
  /\ UNCHANGED <<others, win, seg, lbLocals, lbRes, lbForRes, nDivFor, csLocals>>

\* lines 22-23: both codes zero
CSAccept ==
  /\ pc = "cs_loop"
  /\ code0 = 0 /\ code1 = 0
  /\ csRes' = [csRes EXCEPT ![round] = Returned(x0, y0, x1, y1)]
  /\ printed' = [printed EXCEPT ![round] = Lines("Line is inside the clipping window")]
  /\ pc' = AfterCS
  /\ round' = 2
  /\ UNCHANGED <<others, win, seg, lbLocals, lbRes, lbForRes, nDivFor, csLocals>>

\* lines 24-25: the codes share a bit
CSReject ==
  /\ pc = "cs_loop"
  /\ ~(code0 = 0 /\ code1 = 0)
  /\ BitAnd(code0, code1) # 0
  /\ csRes' = [csRes EXCEPT ![round] = None]
  /\ printed' = [printed EXCEPT ![round] = Lines("Line is outside the clipping window")]
  /\ pc' = AfterCS
  /\ round' = 2
  /\ UNCHANGED <<others, win, seg, lbLocals, lbRes, lbForRes, nDivFor, csLocals>>

\* lines 27-30 with the second endpoint preferred
CodeOut_second == IF code1 # 0 THEN code1 ELSE code0

\* lines 27-30
CodeOut == IF code0 # 0 THEN code0 ELSE code1

\* Denominator with the two axes exchanged
Denominator_exchanged(code_out) ==
  IF BitAnd(code_out, TOP) # 0 \/ BitAnd(code_out, BOTTOM) # 0
  THEN FSub(x1, x0) ELSE FSub(y1, y0)

\* the denominator of the branch lines 31-42 take for code_out
Denominator(code_out) ==
  IF BitAnd(code_out, TOP) # 0 \/ BitAnd(code_out, BOTTOM) # 0
  THEN FSub(y1, y0) ELSE FSub(x1, x0)

\* Intersection with the TOP branch meeting the bottom edge
Intersection_bottom(code_out) ==
  IF BitAnd(code_out, TOP) # 0 \/ BitAnd(code_out, BOTTOM) # 0
  THEN <<FAdd(x0, FDiv(FMul(FSub(x1, x0), FSub(win[2], y0)), FSub(y1, y0))), win[2]>>
  ELSE IF BitAnd(code_out, RIGHT) # 0
  THEN <<win[3], FAdd(y0, FDiv(FMul(FSub(y1, y0), FSub(win[3], x0)), FSub(x1, x0)))>>
  ELSE <<win[1], FAdd(y0, FDiv(FMul(FSub(y1, y0), FSub(win[1], x0)), FSub(x1, x0)))>>

\* lines 31-42: the point <<x, y>> on the chosen edge
Intersection(code_out) ==
  IF BitAnd(code_out, TOP) # 0
  THEN <<FAdd(x0, FDiv(FMul(FSub(x1, x0), FSub(win[4], y0)), FSub(y1, y0))), win[4]>>
  ELSE IF BitAnd(code_out, BOTTOM) # 0
  THEN <<FAdd(x0, FDiv(FMul(FSub(x1, x0), FSub(win[2], y0)), FSub(y1, y0))), win[2]>>
  ELSE IF BitAnd(code_out, RIGHT) # 0
  THEN <<win[3], FAdd(y0, FDiv(FMul(FSub(y1, y0), FSub(win[3], x0)), FSub(x1, x0)))>>
  ELSE <<win[1], FAdd(y0, FDiv(FMul(FSub(y1, y0), FSub(win[1], x0)), FSub(x1, x0)))>>

CountIter == IF nIter < MaxIter THEN nIter + 1 ELSE nIter

\* lines 26-48: replace the endpoint whose code was chosen; a zero
\* denominator in lines 32, 35, 38, 41 raises ZeroDivisionError out of the call
CSIntersect ==
  /\ pc = "cs_loop"
  /\ ~(code0 = 0 /\ code1 = 0)
  /\ BitAnd(code0, code1) = 0
  /\ nIter' = CountIter
  /\ IF IsZero(Denominator(CodeOut))
     THEN /\ csRes' = [csRes EXCEPT ![round] = ZeroDivisionError]
          /\ pc' = AfterCS
          /\ round' = 2
          /\ UNCHANGED <<x0, y0, x1, y1, code0, code1>>
     ELSE /\ \E pt \in {Intersection(CodeOut)} :
               IF CodeOut = code0
               THEN /\ x0' = pt[1] /\ y0' = pt[2]
                    /\ code0' = compute_code(pt[1], pt[2], win[1], win[2], win[3], win[4])
                    /\ UNCHANGED <<x1, y1, code1>>
               ELSE /\ x1' = pt[1] /\ y1' = pt[2]
                    /\ code1' = compute_code(pt[1], pt[2], win[1], win[2], win[3], win[4])
                    /\ UNCHANGED <<x0, y0, code0>>
          /\ UNCHANGED <<pc, round, csRes>>
  /\ UNCHANGED <<others, win, seg, lbLocals, lbRes, lbForRes, nDivFor, printed>>

Next ==
  \/ LBCall \/ LBSkip \/ LBParallelReject \/ LBParallelSkip \/ LBDivide \/ LBReturn
  \/ LBFor \/ LBForSkip
  \/ CSCall \/ CSSkip \/ CSAccept \/ CSReject \/ CSIntersect

Spec == Init /\ [][Next]_vars

\* the same program on the documented scenarios
InitScenario == InitWith(ScenarioWindows, ScenarioSegments)
SpecScenario == InitScenario /\ [][Next]_vars

\* the same program on coordinates of very different magnitudes
InitWide == InitWith(WideWindows, WideSegments)
SpecWide == InitWide /\ [][Next]_vars

\* the same program when the caller passes any four numbers as the window,
\* x_min > x_max and y_min > y_max included (lines 64-80 of
\* lineclippingvisualization.py read them with float(input()) and pass them on)
InitAnyWindow == InitWith(AnyWindows, AnySegments)
SpecAnyWindow == InitAnyWindow /\ [][Next]_vars


\* ------------------------------------------------------------------------
\* Vocabulary of the properties
\* ------------------------------------------------------------------------

\* (x, y) lies in the closed window
InWindow(x, y) ==
  /\ FLe(win[1], x) /\ FLe(x, win[3])
  /\ FLe(win[2], y) /\ FLe(y, win[4])

\* both endpoints of the caller's segment lie in the closed window
SegInside == InWindow(seg[1], seg[2]) /\ InWindow(seg[3], seg[4])

\* the window has a positive width and a positive height
Proper == FLt(win[1], win[3]) /\ FLt(win[2], win[4])

\* the first call of a clipper has ended
Ended(res) == res[1].kind # "pending"

FAbs(a) == IF IsZero(a) THEN a ELSE [a EXCEPT !.s = 0]

\* |r - x| <= 2^-51 * max(|a|, |b|): r is x up to the rounding of one
\* subtraction and one addition of numbers not larger than a and b
Near(r, x, a, b) ==
  FLe(FAbs(FSub(r, x)), FMul(Pow2(-51), PyMax(FAbs(a), FAbs(b))))

\* res is the caller's segment with the second endpoint up to rounding
NearSeg(res) ==
  /\ res.kind = "segment"
  /\ res.v[1] = seg[1] /\ res.v[2] = seg[2]
  /\ Near(res.v[3], seg[3], seg[1], seg[3])
  /\ Near(res.v[4], seg[4], seg[2], seg[4])

\* ------------------------------------------------------------------------
\* C1
\* ------------------------------------------------------------------------

\* C1 as stated: for a segment with both endpoints in the closed window,
\* cohen_sutherland_clip and liang_barsky each return the same four
\* coordinates in the same order (here for windows of positive width and
\* height alone).
C1_Unchanged ==
  (Proper /\ SegInside) =>
    /\ Ended(csRes) => csRes[1].kind = "segment" /\ csRes[1].v = seg
    /\ Ended(lbRes) => lbRes[1].kind = "segment" /\ lbRes[1].v = seg
    /\ Ended(lbForRes) => lbForRes[1].kind = "segment" /\ lbForRes[1].v = seg

\* C1 amended: for a segment with both endpoints in the closed window,
\* cohen_sutherland_clip returns the same four coordinates in the same order;
\* liang_barsky returns a segment whose first endpoint is the input's first
\* endpoint and whose second endpoint is the input's second endpoint up to
\* floating-point rounding (x1 + 1 * (x2 - x1) is rounded twice).
C1_UnchangedUpToRounding ==
  SegInside =>
    /\ Ended(csRes) => csRes[1].kind = "segment" /\ csRes[1].v = seg
    /\ Ended(lbRes) => NearSeg(lbRes[1])
    /\ Ended(lbForRes) => NearSeg(lbForRes[1])

\* an inside segment that all three clippers have processed, liang_barsky
\* having returned other coordinates than it was given
C1_Witness ==
  /\ pc = "done" /\ SegInside
  /\ csRes[1].kind = "segment" /\ csRes[1].v = seg
  /\ lbRes[1].kind = "segment" /\ lbRes[1].v # seg
  /\ lbForRes[1].kind = "segment" /\ lbForRes[1].v # seg

\* ------------------------------------------------------------------------
\* C2
\* ------------------------------------------------------------------------

\* the endpoints of the caller's segment share an outcode bit
SharedBit ==
  BitAnd(compute_code(seg[1], seg[2], win[1], win[2], win[3], win[4]),
         compute_code(seg[3], seg[4], win[1], win[2], win[3], win[4])) # 0

\* C2: for a segment whose endpoints share a nonzero outcode bit,
\* cohen_sutherland_clip returns None without having executed its
\* intersection branch, and liang_barsky (either variant) returns None.
C2_SharedBitOutside ==
  SharedBit =>
    /\ nIter = 0
    /\ Ended(csRes) => csRes[1] = None
    /\ Ended(lbRes) => lbRes[1] = None
    /\ Ended(lbForRes) => lbForRes[1] = None

\* ------------------------------------------------------------------------
\* C3
\* ------------------------------------------------------------------------

\* both endpoints of a returned segment lie in the closed window
ResInWindow(res) ==
  res.kind = "segment" =>
    InWindow(res.v[1], res.v[2]) /\ InWindow(res.v[3], res.v[4])

\* C3 (its first half): whenever cohen_sutherland_clip or liang_barsky
\* returns a segment, both returned endpoints lie inside the closed window
\* (here for windows of positive width and height alone).
C3_ReturnedInsideWindow ==
  Proper =>
  /\ ResInWindow(csRes[1])
  /\ ResInWindow(lbRes[1])
  /\ ResInWindow(lbForRes[1])

\* ------------------------------------------------------------------------
\* C4
\* ------------------------------------------------------------------------

\* a / 2, exact
Half(a) == IF IsZero(a) THEN a ELSE [a EXCEPT !.e = @ - 1]

\* the rounding error of s = a + b, by Knuth's TwoSum, bb being s - a
SumError(a, b, s, bb) == FAdd(FSub(a, FSub(s, bb)), FSub(b, bb))

\* a + b is a float, so that (a + b) / 2 is the exact midpoint of a and b
SumExact(a, b) == IsZero(SumError(a, b, FAdd(a, b), FSub(FAdd(a, b), a)))

\* The caller's segment has a point in the closed window: an endpoint, or
\* the midpoint where its coordinates are floats.
HasPointInWindow ==
  \/ InWindow(seg[1], seg[2])
  \/ InWindow(seg[3], seg[4])
  \/ /\ SumExact(seg[1], seg[3]) /\ SumExact(seg[2], seg[4])
     /\ InWindow(Half(FAdd(seg[1], seg[3])), Half(FAdd(seg[2], seg[4])))

\* C4: a clipper returns None exactly when no point of the segment lies in
\* the closed window.  A segment with a point in the window (an endpoint or
\* its midpoint) is never reported outside, and a segment for which a
\* segment is returned is not one that lies beyond one edge with both ends
\* (here for windows of positive width and height alone).
C4_NoneIffNoPoint ==
  Proper =>
  /\ HasPointInWindow =>
       /\ Ended(csRes) => csRes[1] # None
       /\ Ended(lbRes) => lbRes[1] # None
       /\ Ended(lbForRes) => lbForRes[1] # None
  /\ SharedBit =>
       /\ csRes[1].kind # "segment"
       /\ lbRes[1].kind # "segment"
       /\ lbForRes[1].kind # "segment"

\* ------------------------------------------------------------------------
\* C5
\* ------------------------------------------------------------------------

\* the coordinates of u and v differ by at most 2^-40
Close(u, v) ==
  \A k \in 1..4 : FLe(FAbs(FSub(u[k], v[k])), Pow2(-40))

\* a and b are both None, or both segments with equal endpoints up to
\* floating-point tolerance
Agree(a, b) ==
  \/ a = None /\ b = None
  \/ a.kind = "segment" /\ b.kind = "segment" /\ Close(a.v, b.v)

\* C5: cohen_sutherland_clip and liang_barsky either both return None or
\* both return a segment, with equal endpoints in the same order (equal read
\* as the specification reads it, up to floating-point tolerance); never one
\* a segment and the other None (here for windows of positive width and
\* height alone).
C5_Agreement ==
  Proper =>
  /\ (Ended(csRes) /\ Ended(lbRes)) => Agree(csRes[1], lbRes[1])
  /\ (Ended(csRes) /\ Ended(lbForRes)) => Agree(csRes[1], lbForRes[1])

\* ------------------------------------------------------------------------
\* C6
\* ------------------------------------------------------------------------

\* clipping the returned segment again has returned it again
Again(res) ==
  (res[1].kind = "segment" /\ res[2].kind # "pending") =>
    res[2].kind = "segment" /\ Close(res[2].v, res[1].v)

\* C6: if clip(segment, window) returns a segment S then clip(S, window)
\* returns S again and never None (the same coordinates read up to
\* floating-point tolerance; here for windows of positive width and height
\* alone).
C6_Idempotent ==
  Proper =>
  /\ Again(csRes)
  /\ Again(lbRes)
  /\ Again(lbForRes)

\* ------------------------------------------------------------------------
\* C7
\* ------------------------------------------------------------------------

\* every clipper that has ended has returned the segment of the ints t
AllReturned(t) ==
  /\ Ended(csRes) => csRes[1].kind = "segment" /\ csRes[1].v = Floats(t)
  /\ Ended(lbRes) => lbRes[1].kind = "segment" /\ lbRes[1].v = Floats(t)
  /\ Ended(lbForRes) => lbForRes[1].kind = "segment" /\ lbForRes[1].v = Floats(t)

\* C7: segment (5,5)-(150,150) with window (10,10)-(100,100) yields
\* (10,10)-(100,100), and segment (50,-20)-(50,120) with window
\* (0,0)-(100,100) yields (50,0)-(50,100), with every clipper.
C7_Scenarios ==
  /\ (seg = Floats(<<5, 5, 150, 150>>) /\ win = Floats(<<10, 10, 100, 100>>))
       => AllReturned(<<10, 10, 100, 100>>)
  /\ (seg = Floats(<<50, -20, 50, 120>>) /\ win = Floats(<<0, 0, 100, 100>>))
       => AllReturned(<<50, 0, 50, 100>>)

\* the vertical segment clipped at both ends by all three clippers,
\* cohen_sutherland_clip in two intersection steps
C7_Witness ==
  /\ pc = "done"
  /\ seg = Floats(<<50, -20, 50, 120>>) /\ win = Floats(<<0, 0, 100, 100>>)
  /\ csRes[1].v = Floats(<<50, 0, 50, 100>>)
  /\ lbRes[1].v = Floats(<<50, 0, 50, 100>>)
  /\ lbForRes[1].v = Floats(<<50, 0, 50, 100>>)

\* ------------------------------------------------------------------------
\* C8
\* ------------------------------------------------------------------------

\* p0 == p1
ZeroLength == seg[1] = seg[3] /\ seg[2] = seg[4]

\* the point is returned if it lies in the closed window, None otherwise
PointResult(res) ==
  IF InWindow(seg[1], seg[2])
  THEN res.kind = "segment" /\ res.v = seg
  ELSE res = None

\* C8: for a zero-length segment no clipper executes a division
\* (cohen_sutherland_clip never enters its intersection branch, liang_barsky
\* never computes q_i / p_i), and each returns the point unchanged if it
\* lies in the closed window and None otherwise.
C8_PointContainment ==
  ZeroLength =>
    /\ nIter = 0 /\ nDiv = 0 /\ nDivFor = 0
    /\ Ended(csRes) => PointResult(csRes[1])
    /\ Ended(lbRes) => PointResult(lbRes[1])
    /\ Ended(lbForRes) => PointResult(lbForRes[1])

\* the point at the lower left corner of the window, returned by all three
C8_Witness ==
  /\ pc = "done" /\ ZeroLength
  /\ seg[1] = win[1] /\ seg[2] = win[2]
  /\ csRes[1].kind = "segment" /\ csRes[1].v = seg
  /\ lbRes[1].kind = "segment" /\ lbForRes[1].kind = "segment"

\* ------------------------------------------------------------------------
\* C9
\* ------------------------------------------------------------------------

\* C9: a call of cohen_sutherland_clip executes its intersection branch at
\* most 4 times (here for windows of positive width and height alone).
C9_AtMostFourSteps == Proper => nIter <= 4

\* ------------------------------------------------------------------------
\* C10
\* ------------------------------------------------------------------------

\* the first call printed that the line is outside
PrintedOutside ==
  /\ printed[1] # <<>>
  /\ printed[1][1].text = "Line is outside the clipping window"

\* C10: when the reject condition fires after an endpoint has been replaced
\* by an intersection point, no coordinates of the partially clipped segment
\* are reported as a clipped line: a "Clipped Line" printed together with
\* the outside indicator does not carry coordinates other than the caller's
\* (here for windows of positive width and height alone).
C10_NoPartialSegment ==
  (Proper /\ PrintedOutside) =>
    \A k \in 1..Len(printed[1]) :
      printed[1][k].text = "Clipped Line" => printed[1][k].v = seg

\* ------------------------------------------------------------------------
\* C11
\* ------------------------------------------------------------------------

\* the while loop of this round's call has ended
LoopEnded == pc = "lb_for" /\ lbRes[round].kind # "pending"

\* C11: liang_barsky never divides by zero (no call ends by a
\* ZeroDivisionError, whatever the segment); q_i / p_i is executed for the
\* boundaries with p_i # 0 alone, so at most once per boundary; and the
\* boundary loop runs at most 4 iterations, exactly 4 unless it rejects early
\* at a boundary with p_i == 0 and q_i < 0.
C11_NoDivisionByZero ==
  /\ \A r \in 1..2 : lbRes[r] # ZeroDivisionError /\ lbForRes[r] # ZeroDivisionError
  /\ i \in 0..4 /\ nDiv <= i /\ nDivFor <= 4
  /\ LoopEnded =>
       \/ i = 4
       \/ lbRes[round] = None /\ IsZero(p[i + 1]) /\ FLt(q[i + 1], F0)

\* a vertical segment (dx = 0, dy # 0) taken through all four boundaries
\* with the two divisions by -dx and dx skipped, by both implementations
C11_Witness ==
  /\ pc = "lb_call" /\ round = 2
  /\ seg[1] = seg[3] /\ seg[2] # seg[4]
  /\ i = 4 /\ nDiv = 2 /\ nDivFor = 2
  /\ lbRes[1].kind = "segment" /\ lbForRes[1].kind = "segment"

\* ------------------------------------------------------------------------
\* cohen_sutherland_clip as a function of its arguments
\* ------------------------------------------------------------------------

\* lines 27-30 for the codes c0, c1
code_out_of(c0, c1) == IF c0 # 0 THEN c0 ELSE c1

\* the denominator of the branch lines 31-42 take for code_out
denominator_of(code_out, a0, b0, a1, b1) ==
  IF BitAnd(code_out, TOP) # 0 \/ BitAnd(code_out, BOTTOM) # 0
  THEN FSub(b1, b0) ELSE FSub(a1, a0)

\* lines 31-42 for the segment (a0, b0)-(a1, b1) and the window w
intersection_of(code_out, a0, b0, a1, b1, w) ==
  IF BitAnd(code_out, TOP) # 0
  THEN <<FAdd(a0, FDiv(FMul(FSub(a1, a0), FSub(w[4], b0)), FSub(b1, b0))), w[4]>>
  ELSE IF BitAnd(code_out, BOTTOM) # 0
  THEN <<FAdd(a0, FDiv(FMul(FSub(a1, a0), FSub(w[2], b0)), FSub(b1, b0))), w[2]>>
  ELSE IF BitAnd(code_out, RIGHT) # 0
  THEN <<w[3], FAdd(b0, FDiv(FMul(FSub(b1, b0), FSub(w[3], a0)), FSub(a1, a0)))>>
  ELSE <<w[1], FAdd(b0, FDiv(FMul(FSub(b1, b0), FSub(w[1], a0)), FSub(a1, a0)))>>

\* lines 21-48: the loop from the segment (a0, b0)-(a1, b1) with the codes
\* c0, c1; Pending when n more intersection steps do not end it
RECURSIVE cs_loop(_, _, _, _, _, _, _, _)
cs_replace(pt, c0, c1, a0, b0, a1, b1, w, n) ==
  IF code_out_of(c0, c1) = c0
  THEN cs_loop(pt[1], pt[2], a1, b1,
               compute_code(pt[1], pt[2], w[1], w[2], w[3], w[4]), c1, w, n - 1)
  ELSE cs_loop(a0, b0, pt[1], pt[2],
               c0, compute_code(pt[1], pt[2], w[1], w[2], w[3], w[4]), w, n - 1)

cs_loop(a0, b0, a1, b1, c0, c1, w, n) ==
  IF c0 = 0 /\ c1 = 0 THEN Returned(a0, b0, a1, b1)
  ELSE IF BitAnd(c0, c1) # 0 THEN None
  ELSE IF IsZero(denominator_of(code_out_of(c0, c1), a0, b0, a1, b1))
  THEN ZeroDivisionError
  ELSE IF n = 0 THEN Pending
  ELSE cs_replace(intersection_of(code_out_of(c0, c1), a0, b0, a1, b1, w),
                  c0, c1, a0, b0, a1, b1, w, n)

\* lines 18-48
cohen_sutherland_clip(a0, b0, a1, b1, x_min, y_min, x_max, y_max) ==
  cs_loop(a0, b0, a1, b1,
          compute_code(a0, b0, x_min, y_min, x_max, y_max),
          compute_code(a1, b1, x_min, y_min, x_max, y_max),
          <<x_min, y_min, x_max, y_max>>, MaxIter)

\* the result of the call for the segment s and the window w
cs_of(s, w) == cohen_sutherland_clip(s[1], s[2], s[3], s[4], w[1], w[2], w[3], w[4])

\* ------------------------------------------------------------------------
\* C12
\* ------------------------------------------------------------------------

\* the segment s is parallel to an axis
AxisParallel(s) == s[1] = s[3] \/ s[2] = s[4]

\* the loop is about to compute an intersection (lines 26-42)
AtIntersection ==
  pc = "cs_loop" /\ ~(code0 = 0 /\ code1 = 0) /\ BitAnd(code0, code1) = 0

\* C12 as stated: there are a segment parallel to an axis and a window, of
\* any four numbers, for which cohen_sutherland_clip executes the division of
\* lines 32-41 with a zero denominator.
C12_ZeroDenominatorReached ==
  \E w \in AnyWindows : \E s \in AnySegments :
    AxisParallel(s) /\ cs_of(s, w) = ZeroDivisionError

\* C12, amended: for every segment and every window, x_min > x_max and
\* y_min > y_max included, the division of lines 32-41 is never executed with a
\* zero denominator: two endpoints with the same y (the same x) have the same
\* TOP/BOTTOM (RIGHT/LEFT) bits, so line 24 rejects before the branch whose
\* denominator is y1 - y0 (x1 - x0) can run, and no call raises
\* ZeroDivisionError.
C12_DenominatorNeverZero ==
  /\ AtIntersection => ~IsZero(Denominator(CodeOut))
  /\ \A r \in 1..2 : csRes[r] # ZeroDivisionError

\* a segment that lies along a horizontal line is at the intersection step,
\* which takes the RIGHT or LEFT branch
C12_Witness ==
  /\ AtIntersection
  /\ y0 = y1 /\ x0 # x1
  /\ BitAnd(CodeOut, TOP) = 0 /\ BitAnd(CodeOut, BOTTOM) = 0

\* ------------------------------------------------------------------------
\* C13
\* ------------------------------------------------------------------------

\* x_min > x_max or y_min > y_max
Inverted == FGt(win[1], win[3]) \/ FGt(win[2], win[4])

\* res is neither a segment nor the ordinary outside result
Distinguishable(res) == res.kind # "segment" /\ res # None

\* C13: for a window with x_min > x_max or y_min > y_max, a call of
\* cohen_sutherland_clip or liang_barsky that has ended has ended with a
\* condition that is neither a segment nor the ordinary outside result None.
C13_InvalidWindowRejected ==
  Inverted =>
    /\ Ended(csRes) => Distinguishable(csRes[1])
    /\ Ended(lbRes) => Distinguishable(lbRes[1])
    /\ Ended(lbForRes) => Distinguishable(lbForRes[1])

\* ------------------------------------------------------------------------
\* Two invocations of the clip functions running concurrently
\* (cohen_sutherland_clip of Krrish Nyoupane/Lab 5/lineclippingvisualization.py,
\* liang_barsky of Smarika Gyawali/Lab 6/1.py)
\* ------------------------------------------------------------------------

\* the calls each thread makes one after the other, with the same arguments
MaxCalls == 2

Threads == 1..2

ConcurrentWindows == {Floats(t) : t \in {<<10, 10, 100, 100>>, <<2, 2, 8, 6>>}}

\* what a thread calls: <<function, segment, window>>
ConcurrentCalls == {"cs", "lb"} \X ScenarioSegments \X ConcurrentWindows

\* the frame of a thread that is to call c[1](c[2], c[3]): its arguments, its
\* position, its locals (xy, codes of cohen_sutherland_clip; d, p, q, k, u of
\* liang_barsky) and the results its calls have returned
NewFrame(c) ==
  [fn |-> c[1], seg |-> c[2], win |-> c[3], pc |-> "idle",
   xy |-> <<F0, F0, F0, F0>>, codes |-> <<0, 0>>,
   d |-> <<F0, F0>>, p |-> <<F0, F0, F0, F0>>, q |-> <<F0, F0, F0, F0>>,
   k |-> 0, u |-> <<F0, F1>>, ret |-> <<>>]

\* every invocation reads its parameters and locals shared with thread 1
Frame_shared(t) == 1

\* the frame in which the invocation of thread t reads its parameters and
\* locals: its own (the functions have no global or nonlocal statement and no
\* mutable default or module-level object)
Frame(t) == t

\* lines 19-20 of cohen_sutherland_clip, reading in the frame g
cs_enter(f, g) ==
  [f EXCEPT !.pc = "cs_loop", !.xy = g.seg,
            !.codes = <<compute_code(g.seg[1], g.seg[2],
                                     g.win[1], g.win[2], g.win[3], g.win[4]),
                        compute_code(g.seg[3], g.seg[4],
                                     g.win[1], g.win[2], g.win[3], g.win[4])>>]

\* the call returns res
cs_leave(f, res) == [f EXCEPT !.pc = "idle", !.ret = Append(f.ret, res)]

\* lines 43-48 with the point pt of lines 31-42
cs_store(f, g, pt) ==
  IF code_out_of(g.codes[1], g.codes[2]) = g.codes[1]
  THEN [f EXCEPT !.xy = <<pt[1], pt[2], g.xy[3], g.xy[4]>>,
                 !.codes = <<compute_code(pt[1], pt[2],
                                          g.win[1], g.win[2], g.win[3], g.win[4]),
                             g.codes[2]>>]
  ELSE [f EXCEPT !.xy = <<g.xy[1], g.xy[2], pt[1], pt[2]>>,
                 !.codes = <<g.codes[1],
                             compute_code(pt[1], pt[2],
                                          g.win[1], g.win[2], g.win[3], g.win[4])>>]

\* lines 26-48, reading in the frame g
cs_advance(f, g) ==
  IF IsZero(denominator_of(code_out_of(g.codes[1], g.codes[2]),
                           g.xy[1], g.xy[2], g.xy[3], g.xy[4]))
  THEN cs_leave(f, ZeroDivisionError)
  ELSE cs_store(f, g, intersection_of(code_out_of(g.codes[1], g.codes[2]),
                                      g.xy[1], g.xy[2], g.xy[3], g.xy[4], g.win))

\* lines 4-10 of liang_barsky with dx, dy of lines 4-5
lb_locals(f, g, ddx, ddy) ==
  [f EXCEPT !.pc = "lb_loop", !.d = <<ddx, ddy>>,
            !.p = <<FNeg(ddx), ddx, FNeg(ddy), ddy>>,
            !.q = <<FSub(g.seg[1], g.win[1]), FSub(g.win[3], g.seg[1]),
                    FSub(g.seg[2], g.win[2]), FSub(g.win[4], g.seg[2])>>,
            !.u = <<F0, F1>>, !.k = 1]

lb_enter(f, g) ==
  lb_locals(f, g, FSub(g.seg[3], g.seg[1]), FSub(g.seg[4], g.seg[2]))

\* lines 13-21 for the pair (pp[k], qq[k]): <<"reject" | "next", u1, u2>>
lb_for_step(pp, qq, k, v1, v2) ==
  IF Parallel(pp[k])
  THEN IF FLt(qq[k], F0) THEN <<"reject", v1, v2>> ELSE <<"next", v1, v2>>
  ELSE IF IsZero(pp[k]) THEN <<"raise", v1, v2>>
  ELSE IF FLt(pp[k], F0)
  THEN <<"next", PyMax(v1, FDiv(qq[k], pp[k])), v2>>
  ELSE <<"next", v1, PyMin(v2, FDiv(qq[k], pp[k]))>>

\* one iteration of the loop of line 12 with the outcome r of lb_for_step
lb_advance(f, g, r) ==
  IF r[1] = "reject" THEN cs_leave(f, None)
  ELSE IF r[1] = "raise" THEN cs_leave(f, ZeroDivisionError)
  ELSE [f EXCEPT !.u = <<r[2], r[3]>>, !.k = g.k + 1]

\* thread t calls cohen_sutherland_clip
TCSCall(t) ==
  /\ thr[t].pc = "idle" /\ thr[t].fn = "cs" /\ Len(thr[t].ret) < MaxCalls
  /\ thr' = [thr EXCEPT ![t] = cs_enter(thr[t], thr[Frame(t)])]
  /\ UNCHANGED <<seqVars, colorVars, fetchVars, drawVars>>

\* lines 22-23
TCSAccept(t) ==
  /\ thr[t].pc = "cs_loop"
  /\ thr[Frame(t)].codes = <<0, 0>>
  /\ thr' = [thr EXCEPT ![t] =
               cs_leave(thr[t], Returned(thr[Frame(t)].xy[1], thr[Frame(t)].xy[2],
                                         thr[Frame(t)].xy[3], thr[Frame(t)].xy[4]))]
  /\ UNCHANGED <<seqVars, colorVars, fetchVars, drawVars>>

\* lines 24-25
TCSReject(t) ==
  /\ thr[t].pc = "cs_loop"
  /\ thr[Frame(t)].codes # <<0, 0>>
  /\ BitAnd(thr[Frame(t)].codes[1], thr[Frame(t)].codes[2]) # 0
  /\ thr' = [thr EXCEPT ![t] = cs_leave(thr[t], None)]
  /\ UNCHANGED <<seqVars, colorVars, fetchVars, drawVars>>

\* lines 26-48
TCSIntersect(t) ==
  /\ thr[t].pc = "cs_loop"
  /\ thr[Frame(t)].codes # <<0, 0>>
  /\ BitAnd(thr[Frame(t)].codes[1], thr[Frame(t)].codes[2]) = 0
  /\ thr' = [thr EXCEPT ![t] = cs_advance(thr[t], thr[Frame(t)])]
  /\ UNCHANGED <<seqVars, colorVars, fetchVars, drawVars>>

\* thread t calls liang_barsky: lines 4-10
TLBCall(t) ==
  /\ thr[t].pc = "idle" /\ thr[t].fn = "lb" /\ Len(thr[t].ret) < MaxCalls
  /\ thr' = [thr EXCEPT ![t] = lb_enter(thr[t], thr[Frame(t)])]
  /\ UNCHANGED <<seqVars, colorVars, fetchVars, drawVars>>

\* lines 12-21, one pair of zip(p, q)
TLBStep(t) ==
  /\ thr[t].pc = "lb_loop"
  /\ thr[Frame(t)].k \in 1..4
  /\ thr' = [thr EXCEPT ![t] =
               lb_advance(thr[t], thr[Frame(t)],
                          lb_for_step(thr[Frame(t)].p, thr[Frame(t)].q, thr[Frame(t)].k,
                                      thr[Frame(t)].u[1], thr[Frame(t)].u[2]))]
  /\ UNCHANGED <<seqVars, colorVars, fetchVars, drawVars>>

\* lines 23-31
TLBReturn(t) ==
  /\ thr[t].pc = "lb_loop"
  /\ thr[Frame(t)].k \notin 1..4
  /\ thr' = [thr EXCEPT ![t] =
               cs_leave(thr[t],
                        lb_for_return(thr[Frame(t)].seg[1], thr[Frame(t)].seg[2],
                                      thr[Frame(t)].d[1], thr[Frame(t)].d[2],
                                      <<"through", thr[Frame(t)].u[1],
                                        thr[Frame(t)].u[2], 0>>)[1])]
  /\ UNCHANGED <<seqVars, colorVars, fetchVars, drawVars>>

\* nobody runs the clippers one after the other
NoCaller ==
  /\ win = <<F0, F0, F0, F0>> /\ seg = <<F0, F0, F0, F0>>
  /\ pc = "done" /\ round = 1
  /\ dx = F0 /\ dy = F0 /\ p = <<F0, F0, F0, F0>> /\ q = <<F0, F0, F0, F0>>
  /\ i = 0 /\ u1 = F0 /\ u2 = F1 /\ nDiv = 0
  /\ lbRes = NoResults /\ lbForRes = NoResults /\ nDivFor = 0
  /\ x0 = F0 /\ y0 = F0 /\ x1 = F0 /\ y1 = F0 /\ code0 = 0 /\ code1 = 0
  /\ nIter = 0
  /\ csRes = NoResults
  /\ printed = [r \in 1..2 |-> <<>>]

\* two threads, each with a call of its own to make
InitConcurrent ==
  /\ NoCaller
  /\ NoColor
  /\ NoFetch
  /\ NoDraw
  /\ \E c1, c2 \in ConcurrentCalls : thr = <<NewFrame(c1), NewFrame(c2)>>

\* any thread takes its next step
NextConcurrent ==
  \E t \in Threads :
    \/ TCSCall(t) \/ TCSAccept(t) \/ TCSReject(t) \/ TCSIntersect(t)
    \/ TLBCall(t) \/ TLBStep(t) \/ TLBReturn(t)

SpecConcurrent == InitConcurrent /\ [][NextConcurrent]_vars

\* ------------------------------------------------------------------------
\* C14
\* ------------------------------------------------------------------------

\* what the call of the frame f returns when nothing else runs
Alone(f) ==
  IF f.fn = "cs" THEN cs_of(f.seg, f.win)
  ELSE liang_barsky_for(f.seg[1], f.seg[2], f.seg[3], f.seg[4],
                        f.win[1], f.win[2], f.win[3], f.win[4])[1]

\* C14: whatever the interleaving of the steps of two concurrent invocations,
\* every call that has returned has returned what the same call returns when
\* it runs alone, the first call of a thread and its repetition with the
\* same arguments alike.
C14_SameAsAlone ==
  \A t \in DOMAIN thr : \A j \in 1..Len(thr[t].ret) : thr[t].ret[j] = Alone(thr[t])

\* both threads have returned from a first call and are in the middle of the
\* second, one in cohen_sutherland_clip with an endpoint replaced, the other
\* in the loop of liang_barsky, on different segments
C14_Witness ==
  /\ Len(thr) = 2
  /\ thr[1].fn = "cs" /\ thr[1].pc = "cs_loop" /\ Len(thr[1].ret) = 1
  /\ thr[1].xy # thr[1].seg /\ thr[1].ret[1].kind = "segment"
  /\ thr[2].fn = "lb" /\ thr[2].pc = "lb_loop" /\ Len(thr[2].ret) = 1
  /\ thr[2].k = 3 /\ thr[2].ret[1].kind = "segment"
  /\ thr[1].seg # thr[2].seg /\ thr[1].win # thr[2].win

\* ------------------------------------------------------------------------
\* StockVisualizer.calculate_color (Gaurab_Pandey/src(project)/visualizer.py)
\* ------------------------------------------------------------------------

\* the percentages the demonstration runs over, in tenths: -MaxPct/10 .. MaxPct/10
MaxPct == 60

Percentages == {Tenth(k) : k \in -MaxPct..MaxPct}

\* 2^k for k in 0..27
RECURSIVE TwoTo(_)
TwoTo(k) == IF k = 0 THEN 1 ELSE 2 * TwoTo(k - 1)

\* int(a) for |a| < 2^27: the integer part, rounded toward zero
PyInt(a) ==
  IF IsZero(a) \/ -a.e - 26 > 27 THEN 0
  ELSE IF a.s = 0 THEN a.h \div TwoTo(-a.e - 26)
  ELSE -(a.h \div TwoTo(-a.e - 26))

F5 == FromInt(5)
FHalf == FDiv(F1, FromInt(2))
F255 == FromInt(255)

\* line 76: the f-string of the three channels
rgb_string(c) ==
  "rgb(" \o ToString(c[1]) \o ", " \o ToString(c[2]) \o ", " \o ToString(c[3]) \o ")"

\* lines 64-76 for the value of line 61: the three channels of line 76
channels_of(normalized) ==
  IF FLt(normalized, FHalf)
  THEN <<PyInt(FMul(F1, F255)),
         PyInt(FMul(FMul(normalized, FromInt(2)), F255)),
         PyInt(FMul(F0, F255))>>
  ELSE <<PyInt(FMul(FSub(F1, FMul(FSub(normalized, FHalf), FromInt(2))), F255)),
         PyInt(FMul(F1, F255)),
         PyInt(FMul(F0, F255))>>

\* line 61
normalized_of(clamped) == FDiv(FAdd(clamped, F5), FromInt(10))

\* calculate_color without the clamp of line 57
calculate_channels_unclamped(pct) == channels_of(normalized_of(pct))

\* lines 57-76: the three channels of the colour of pct
calculate_channels(pct) ==
  channels_of(normalized_of(PyMax(FNeg(F5), PyMin(F5, pct))))

\* lines 40-76
CalculateColor ==
  /\ color = ""
  /\ \E c \in {calculate_channels(change_pct)} :
       /\ channels' = c
       /\ color' = rgb_string(c)
  /\ UNCHANGED <<seqVars, thr, fetchVars, drawVars, change_pct>>

InitColor ==
  /\ NoCaller
  /\ thr = <<>>
  /\ NoFetch
  /\ NoDraw
  /\ change_pct \in Percentages
  /\ channels = <<>> /\ color = ""

SpecColor == InitColor /\ [][CalculateColor]_vars

\* ------------------------------------------------------------------------
\* C15
\* ------------------------------------------------------------------------

\* C15: calculate_color returns 'rgb(255, 0, 0)' for change_pct <= -5,
\* 'rgb(255, 255, 0)' for change_pct = 0 and 'rgb(0, 255, 0)' for
\* change_pct >= 5; for every change_pct the blue channel is 0, every channel
\* is an integer of 0..255 and the red or the green channel is 255.
C15_ColorMapping ==
  color # "" =>
    /\ FLe(change_pct, FNeg(F5)) => color = "rgb(255, 0, 0)"
    /\ IsZero(change_pct) => color = "rgb(255, 255, 0)"
    /\ FLe(F5, change_pct) => color = "rgb(0, 255, 0)"
    /\ channels[3] = 0
    /\ \A c \in 1..3 : channels[c] \in 0..255
    /\ channels[1] = 255 \/ channels[2] = 255
    /\ color = rgb_string(channels)

\* the colour of a loss beyond -5 %, where the clamp of line 57 acts
C15_Witness ==
  /\ FLt(change_pct, FNeg(F5))
  /\ color = "rgb(255, 0, 0)"

\* ------------------------------------------------------------------------
\* StockDataFetcher (Gaurab_Pandey/src(project)/data_fetcher.py)
\* ------------------------------------------------------------------------

\* the longest list of tickers of a sector
MaxTickers == 2

SectorNames == {"Technology", "Finance"}
Tickers == {"AAPL", "JPM"}

\* lists of at most n tickers
RECURSIVE TickerLists(_)
TickerLists(n) ==
  IF n = 0 THEN {<<>>}
  ELSE TickerLists(n - 1) \cup
       {Append(l, t) : l \in {m \in TickerLists(n - 1) : Len(m) = n - 1}, t \in Tickers}

\* the items of the dictionaries with sectors of SectorNames, in the order
\* of insertion
SectorDicts ==
  {<<>>}
  \cup {<<<<s, l>>>> : s \in SectorNames, l \in TickerLists(MaxTickers)}
  \cup {d \in {<<<<s1, l1>>, <<s2, l2>>>> :
                 s1 \in SectorNames, s2 \in SectorNames,
                 l1 \in TickerLists(MaxTickers), l2 \in TickerLists(MaxTickers)} :
          d[1][1] # d[2][1]}

\* what Yahoo Finance does for one ticker: history(period='1d') and
\* history(period='5d') give rows, give an empty frame or raise; the
\* processing of the rows and stock.info go through or raise
Answers == {"rows", "empty", "raise"}
Responses == [day : Answers, week : Answers, info : {"ok", "raise"}]

\* an exception leaves the function
Raised == [kind |-> "raised", v |-> <<>>]

\* lines 53-69, 120-122: "rows", "empty" (return None of line 69) or
\* "raise" (an exception reaches line 120)
history_of(resp) ==
  IF resp.day = "raise" THEN "raise"
  ELSE IF resp.day = "rows" THEN "rows"
  ELSE resp.week

\* fetch_single_stock whose except clause does not catch
fetch_single_stock_uncaught(ticker, resp) ==
  IF history_of(resp) = "raise" THEN Raised
  ELSE IF history_of(resp) = "empty" THEN None
  ELSE IF resp.info = "raise" THEN Raised
  ELSE [ticker |-> ticker]

\* lines 32-122: None, or the dictionary of the stock (its key 'ticker')
fetch_single_stock(ticker, resp) ==
  IF history_of(resp) = "raise" THEN None
  ELSE IF history_of(resp) = "empty" THEN None
  ELSE IF resp.info = "raise" THEN None
  ELSE [ticker |-> ticker]

\* lines 180-181: stock['sector'] = sector for every stock of the list
Tagged(l, sector) ==
  [j \in 1..Len(l) |-> [ticker |-> l[j].ticker, sector |-> sector]]

\* line 183: result[sector] = sector_data
Stored(d, sector, sector_data) ==
  [k \in DOMAIN d \cup {sector} |-> IF k = sector THEN sector_data ELSE d[k]]

\* line 168
FBSCall ==
  /\ fpc = "idle"
  /\ fpc' = "sectors"
  /\ result' = <<>>
  /\ sector_i' = 0
  /\ UNCHANGED <<seqVars, thr, colorVars, drawVars, stocks_by_sector, ticker_i, results,
                 last_update, fetched>>

\* lines 172-177, 134-137: the next item; fetch_multiple_stocks is called
FBSNextSector ==
  /\ fpc = "sectors"
  /\ sector_i < Len(stocks_by_sector)
  /\ sector_i' = sector_i + 1
  /\ results' = <<>>
  /\ ticker_i' = 0
  /\ fetched' = Append(fetched, <<>>)
  /\ fpc' = "tickers"
  /\ UNCHANGED <<seqVars, thr, colorVars, drawVars, stocks_by_sector, result, last_update>>

\* lines 140-144: one ticker of the list
FMSFetch ==
  /\ fpc = "tickers"
  /\ ticker_i < Len(stocks_by_sector[sector_i][2])
  /\ \E resp \in Responses :
       \E data \in {fetch_single_stock(stocks_by_sector[sector_i][2][ticker_i + 1], resp)} :
         IF data = Raised
         THEN /\ fpc' = "raised"
              /\ UNCHANGED <<ticker_i, results, fetched>>
         ELSE /\ ticker_i' = ticker_i + 1
              /\ results' = IF data # None THEN Append(results, data) ELSE results
              /\ fetched' = [fetched EXCEPT ![sector_i] = Append(@, data)]
              /\ UNCHANGED fpc
  /\ UNCHANGED <<seqVars, thr, colorVars, drawVars, stocks_by_sector, sector_i, result, last_update>>

\* lines 146-152, 180-183: fetch_multiple_stocks returns; the stocks are
\* tagged and stored
FMSReturn ==
  /\ fpc = "tickers"
  /\ ticker_i = Len(stocks_by_sector[sector_i][2])
  /\ last_update' = last_update + 1
  /\ result' = Stored(result, stocks_by_sector[sector_i][1],
                      Tagged(results, stocks_by_sector[sector_i][1]))
  /\ fpc' = "sectors"
  /\ UNCHANGED <<seqVars, thr, colorVars, drawVars, stocks_by_sector, sector_i, ticker_i,
                 results, fetched>>

\* line 185
FBSReturn ==
  /\ fpc = "sectors"
  /\ sector_i = Len(stocks_by_sector)
  /\ fpc' = "returned"
  /\ UNCHANGED <<seqVars, thr, colorVars, drawVars, stocks_by_sector, sector_i, ticker_i,
                 results, result, last_update, fetched>>

InitFetch ==
  /\ NoCaller
  /\ thr = <<>>
  /\ NoColor
  /\ NoDraw
  /\ stocks_by_sector \in SectorDicts
  /\ fpc = "idle" /\ sector_i = 0 /\ ticker_i = 0
  /\ results = <<>> /\ result = <<>> /\ last_update = 0 /\ fetched = <<>>

NextFetch == FBSCall \/ FBSNextSector \/ FMSFetch \/ FMSReturn \/ FBSReturn

SpecFetch == InitFetch /\ [][NextFetch]_vars

\* ------------------------------------------------------------------------
\* C16
\* ------------------------------------------------------------------------

\* the stocks of the returned values l, in their order
RECURSIVE NonNone(_)
NonNone(l) ==
  IF l = <<>> THEN <<>>
  ELSE IF Head(l) = None THEN NonNone(Tail(l))
  ELSE <<Head(l)>> \o NonNone(Tail(l))

\* the tickers of item k of the argument
TickersOf(k) == stocks_by_sector[k][2]

\* C16: no call of fetch_single_stock raises, whatever Yahoo Finance does:
\* it returns None or the stock of its ticker; the list of
\* fetch_multiple_stocks is, in the order of the tickers, the returned values
\* that are not None, so it is not longer than the tickers; and
\* fetch_by_sector returns a dictionary whose keys are the sectors of its
\* argument, every sector with the stocks fetched for it, each tagged with
\* the sector.
C16_FailedFetchNeverAborts ==
  /\ fpc # "raised"
  /\ \A k \in 1..Len(fetched) :
       /\ Len(fetched[k]) <= Len(TickersOf(k))
       /\ \A j \in 1..Len(fetched[k]) :
            fetched[k][j] = None \/ fetched[k][j] = [ticker |-> TickersOf(k)[j]]
  /\ fpc = "tickers" =>
       /\ results = NonNone(fetched[sector_i])
       /\ Len(results) <= Len(TickersOf(sector_i))
  /\ \A k \in 1..Len(fetched) :
       (k < sector_i \/ fpc \in {"sectors", "returned"}) =>
         /\ stocks_by_sector[k][1] \in DOMAIN result
         /\ result[stocks_by_sector[k][1]] =
              Tagged(NonNone(fetched[k]), stocks_by_sector[k][1])
         /\ Len(result[stocks_by_sector[k][1]]) <= Len(TickersOf(k))
  /\ fpc = "returned" =>
       DOMAIN result = {stocks_by_sector[k][1] : k \in 1..Len(stocks_by_sector)}

\* fetch_by_sector has returned for two sectors: in the first the fetch of
\* the first ticker failed and that of the second gave a stock, in the
\* second sector both fetches failed
C16_Witness ==
  /\ fpc = "returned"
  /\ Len(stocks_by_sector) = 2
  /\ Len(fetched[1]) = 2 /\ fetched[1][1] = None /\ fetched[1][2] # None
  /\ Len(result[stocks_by_sector[1][1]]) = 1
  /\ Len(fetched[2]) = 2 /\ result[stocks_by_sector[2][1]] = <<>>

\* ------------------------------------------------------------------------
\* C17
\* ------------------------------------------------------------------------

\* the code c has the bit b
Has(c, b) == BitAnd(c, b) # 0

\* cohen_sutherland_clip holds the codes of its two endpoints
InLoop == pc = "cs_loop"

\* C17 as stated, for the point (x, y) with the code c: LEFT iff x < x_min,
\* RIGHT iff x > x_max, BOTTOM iff y < y_min, TOP iff y > y_max, 0 iff the
\* point lies in the closed window
CodeAsStated(c, x, y) ==
  /\ Has(c, LEFT) <=> FLt(x, win[1])
  /\ Has(c, RIGHT) <=> FGt(x, win[3])
  /\ Has(c, BOTTOM) <=> FLt(y, win[2])
  /\ Has(c, TOP) <=> FGt(y, win[4])
  /\ c = INSIDE <=> InWindow(x, y)

\* the same with the elif of lines 11 and 15: RIGHT iff x > x_max and not
\* x < x_min, TOP iff y > y_max and not y < y_min
CodeWithElif(c, x, y) ==
  /\ Has(c, LEFT) <=> FLt(x, win[1])
  /\ Has(c, RIGHT) <=> (FGt(x, win[3]) /\ ~FLt(x, win[1]))
  /\ Has(c, BOTTOM) <=> FLt(y, win[2])
  /\ Has(c, TOP) <=> (FGt(y, win[4]) /\ ~FLt(y, win[2]))
  /\ c = INSIDE <=> InWindow(x, y)

\* neither both LEFT and RIGHT nor both BOTTOM and TOP
OneBitPerAxis(c) ==
  /\ ~(Has(c, LEFT) /\ Has(c, RIGHT))
  /\ ~(Has(c, BOTTOM) /\ Has(c, TOP))
  /\ c \in {0, 1, 2, 4, 5, 6, 8, 9, 10}

\* x_min <= x_max and y_min <= y_max
ValidWindow == FLe(win[1], win[3]) /\ FLe(win[2], win[4])

\* C17 as stated: the codes of both endpoints are as stated for every
\* window, and have one bit per axis for a window with x_min <= x_max and
\* y_min <= y_max.
C17_CodeAsStated ==
  InLoop =>
    /\ CodeAsStated(code0, x0, y0) /\ CodeAsStated(code1, x1, y1)
    /\ ValidWindow => OneBitPerAxis(code0) /\ OneBitPerAxis(code1)

\* C17, amended: for every window, x_min > x_max and y_min > y_max included,
\* compute_code sets LEFT iff x < x_min, RIGHT iff x > x_max and not
\* x < x_min, BOTTOM iff y < y_min, TOP iff y > y_max and not y < y_min,
\* returns 0 iff the point lies in the closed window, and never sets both
\* LEFT and RIGHT nor both BOTTOM and TOP, so the code is one of 0, 1, 2, 4,
\* 5, 6, 8, 9, 10; for a window with x_min <= x_max and y_min <= y_max, RIGHT
\* is set iff x > x_max and TOP iff y > y_max.
C17_CodeWithElif ==
  InLoop =>
    /\ CodeWithElif(code0, x0, y0) /\ CodeWithElif(code1, x1, y1)
    /\ OneBitPerAxis(code0) /\ OneBitPerAxis(code1)
    /\ ValidWindow => CodeAsStated(code0, x0, y0) /\ CodeAsStated(code1, x1, y1)

\* the first endpoint lies right of x_max and left of x_min and has the
\* code LEFT alone, the second lies above a window with y_min <= y_max
C17_Witness ==
  /\ InLoop
  /\ FGt(x0, win[3]) /\ FLt(x0, win[1]) /\ code0 = LEFT
  /\ FLe(win[2], win[4]) /\ FGt(y1, win[4]) /\ Has(code1, TOP)

\* ------------------------------------------------------------------------
\* C18
\* ------------------------------------------------------------------------

\* (x, y) is on the edge that the priority TOP, BOTTOM, RIGHT, LEFT chooses
\* among the bits of code_out
OnChosenEdge(code_out, x, y) ==
  IF Has(code_out, TOP) THEN y = win[4]
  ELSE IF Has(code_out, BOTTOM) THEN y = win[2]
  ELSE IF Has(code_out, RIGHT) THEN x = win[3]
  ELSE Has(code_out, LEFT) /\ x = win[1]

\* an iteration of cohen_sutherland_clip that does not return
NonTerminal == AtIntersection /\ pc' = "cs_loop"

\* the step replaces endpoint 0 if code0 is not 0 and endpoint 1 otherwise,
\* by a point on the chosen edge with its code, and leaves the other alone
ReplacesOne ==
  IF code0 # 0
  THEN /\ CodeOut = code0
       /\ OnChosenEdge(code0, x0', y0')
       /\ code0' = compute_code(x0', y0', win[1], win[2], win[3], win[4])
       /\ x1' = x1 /\ y1' = y1 /\ code1' = code1
  ELSE /\ CodeOut = code1 /\ CodeOut # code0
       /\ OnChosenEdge(code1, x1', y1')
       /\ code1' = compute_code(x1', y1', win[1], win[2], win[3], win[4])
       /\ x0' = x0 /\ y0' = y0 /\ code0' = code0

\* C18: every iteration of cohen_sutherland_clip that does not return
\* replaces exactly one endpoint, endpoint 0 if its code is not 0 and
\* endpoint 1 otherwise, by a point of the edge chosen among the bits of
\* that endpoint's code in the order TOP, BOTTOM, RIGHT, LEFT, and leaves
\* the other endpoint and its code unchanged.
C18_OneEndpointReplaced == [][NonTerminal => ReplacesOne]_vars

\* after the first iteration of a call whose first endpoint is inside and
\* whose second endpoint is above and right of the window: the second
\* endpoint is on the top edge, the first is untouched
C18_Witness ==
  /\ InLoop /\ round = 1 /\ nIter = 1
  /\ compute_code(seg[1], seg[2], win[1], win[2], win[3], win[4]) = INSIDE
  /\ compute_code(seg[3], seg[4], win[1], win[2], win[3], win[4]) = TOP + RIGHT
  /\ x0 = seg[1] /\ y0 = seg[2] /\ code0 = INSIDE
  /\ y1 = win[4] /\ <<x1, y1>> # <<seg[3], seg[4]>>

\* ------------------------------------------------------------------------
\* C19
\* ------------------------------------------------------------------------

\* the bit of code_out that lines 31-42 choose
ChosenBit(code_out) ==
  IF Has(code_out, TOP) THEN TOP
  ELSE IF Has(code_out, BOTTOM) THEN BOTTOM
  ELSE IF Has(code_out, RIGHT) THEN RIGHT
  ELSE LEFT

\* the bit of the other edge of the same axis
Opposite(b) ==
  IF b = TOP THEN BOTTOM ELSE IF b = BOTTOM THEN TOP
  ELSE IF b = RIGHT THEN LEFT ELSE RIGHT

\* x is not outside the interval of a and b
Between(a, x, b) == (FLe(a, x) /\ FLe(x, b)) \/ (FLe(b, x) /\ FLe(x, a))

\* (x, y) is not beyond the endpoints of the segment s in either coordinate,
\* as every point of s is
WithinSegment(x, y, s) == Between(s[1], x, s[3]) /\ Between(s[2], y, s[4])

\* the point (x, y) with the code c that replaces the endpoint of code_out
\* is on the chosen edge, within the segment the call was given, and c has
\* neither the chosen bit nor its opposite
ReplacedWell(x, y, c, code_out) ==
  /\ OnChosenEdge(code_out, x, y)
  /\ WithinSegment(x, y, ArgsOf(csRes))
  /\ ~Has(c, ChosenBit(code_out))
  /\ ~Has(c, Opposite(ChosenBit(code_out)))

\* C19: for a window with x_min <= x_max and y_min <= y_max (here of positive
\* width and height), after each iteration of cohen_sutherland_clip that
\* does not return, the replaced endpoint lies on the chosen edge line and
\* on the original segment, hence between its endpoints, and its new code
\* has neither the chosen bit nor the opposite bit of the same axis.
C19_OnEdgeAndSegment ==
  [][(Proper /\ NonTerminal) =>
       IF code0 # 0 THEN ReplacedWell(x0', y0', code0', code0)
       ELSE ReplacedWell(x1', y1', code1', code1)]_vars

\* ------------------------------------------------------------------------
\* C20
\* ------------------------------------------------------------------------

\* the segment is parallel to boundary k and outside of it
Outside(k) == IsZero(p[k]) /\ FLt(q[k], F0)

\* the loop of liang_barsky is at boundary i + 1, to which the segment is
\* parallel
AtParallel == pc = "lb_loop" /\ i < 4 /\ IsZero(p[i + 1])

\* the step at a parallel boundary: q < 0 returns None with nothing else
\* touched, q >= 0 goes on to the next boundary with u1 and u2 as they were
ParallelStep ==
  IF FLt(q[i + 1], F0)
  THEN /\ lbRes'[round] = None /\ pc' = "lb_for"
       /\ i' = i /\ nDiv' = nDiv /\ u1' = u1 /\ u2' = u2
  ELSE /\ i' = i + 1 /\ pc' = "lb_loop" /\ lbRes' = lbRes
       /\ nDiv' = nDiv /\ u1' = u1 /\ u2' = u2

\* p and q are those of lines 8-9 for the arguments a of the call
BoundariesOf(a) ==
  /\ p = <<FNeg(FSub(a[3], a[1])), FSub(a[3], a[1]),
           FNeg(FSub(a[4], a[2])), FSub(a[4], a[2])>>
  /\ q = <<FSub(a[1], win[1]), FSub(win[3], a[1]),
           FSub(a[2], win[2]), FSub(win[4], a[2])>>

\* the divisions the for loop executes before boundary k
DivisionsBefore(k) == Cardinality({j \in 1..(k - 1) : ~IsZero(p[j])})

\* C20, the loop of Shrijan_BEI42/LAB7/Ex1.py: p and q are [-dx, dx, -dy, dy]
\* and [x1 - xmin, xmax - x1, y1 - ymin, ymax - y1]; at a boundary with
\* p_i = 0 the step returns None at once if q_i < 0 and otherwise leaves u1
\* and u2 unchanged and goes on to the next boundary.
C20_WhileLoop ==
  [][/\ (pc = "lb_loop" /\ HasArgs(lbRes)) => BoundariesOf(ArgsOf(lbRes))
     /\ AtParallel => ParallelStep]_vars

\* C20, the loop of Smarika Gyawali/Lab 6/1.py, for its first call (p and q
\* are those the while loop has computed for the same arguments): when the
\* segment is parallel to a boundary k and outside of it, and to no earlier
\* boundary, the call returns None having divided only for the boundaries
\* before k that are not parallel.
C20_ForLoop ==
  (pc = "lb_call" /\ round = 2) =>
    \A k \in 1..4 :
      (Outside(k) /\ \A j \in 1..(k - 1) : ~Outside(j)) =>
        lbForRes[1] = None /\ nDivFor = DivisionsBefore(k)

\* C20: in both implementations of liang_barsky a boundary with p_i = 0 and
\* q_i < 0 makes the call return None without examining the later
\* boundaries, and one with p_i = 0 and q_i >= 0 leaves u1 and u2 unchanged.
C20_ParallelBoundaries == C20_WhileLoop /\ []C20_ForLoop

\* a point inside the window in x and below it in y: the left and the right
\* boundary are passed with u1 = 0 and u2 = 1, the bottom boundary returns
\* None, no division is executed and the top boundary is not examined
C20_Witness ==
  /\ pc = "lb_for" /\ round = 1
  /\ lbRes[1] = None
  /\ i = 2 /\ nDiv = 0 /\ u1 = F0 /\ u2 = F1
  /\ IsZero(p[1]) /\ ~FLt(q[1], F0) /\ IsZero(p[2]) /\ ~FLt(q[2], F0)
  /\ Outside(3)

\* ------------------------------------------------------------------------
\* C21
\* ------------------------------------------------------------------------

\* the loop of liang_barsky divides for boundary i + 1 and goes on
Tightening == pc = "lb_loop" /\ i < 4 /\ ~IsZero(p[i + 1]) /\ pc' = "lb_loop"

\* p < 0 changes u1 alone, to max(u1, t), which is not below u1; p > 0
\* changes u2 alone, to min(u2, t), which is not above u2
TightenStep ==
  IF FLt(p[i + 1], F0)
  THEN /\ u1' = PyMax(u1, FDiv(q[i + 1], p[i + 1]))
       /\ FLe(u1, u1') /\ u2' = u2
  ELSE /\ u2' = PyMin(u2, FDiv(q[i + 1], p[i + 1]))
       /\ FLe(u2', u2) /\ u1' = u1

\* the call of the while loop for the arguments a has ended as the claim
\* says: None iff a parallel boundary rejected (the loop left before its
\* fourth boundary) or u1 > u2, and otherwise the four sums with
\* 0 <= u1 <= u2 <= 1
EndedAsStated(a) ==
  /\ lbRes[round] = None <=> (i < 4 \/ FGt(u1, u2))
  /\ lbRes[round] # None =>
       /\ lbRes[round] =
            Returned(FAdd(a[1], FMul(u1, dx)), FAdd(a[2], FMul(u1, dy)),
                     FAdd(a[1], FMul(u2, dx)), FAdd(a[2], FMul(u2, dy)))
       /\ FLe(F0, u1) /\ FLe(u1, u2) /\ FLe(u2, F1)

\* what holds of u1, u2 and of the results in every state
ParametersInRange ==
  /\ FLe(F0, u1) /\ FLe(u2, F1)
  /\ (pc = "lb_for" /\ HasArgs(lbRes)) => EndedAsStated(ArgsOf(lbRes))
  /\ (pc = "lb_call" /\ round = 2) => lbForRes[1] = lbRes[1]
  /\ pc \in {"cs_call", "cs_loop", "done"} => lbForRes = lbRes

\* C21: u1 starts at 0 and never decreases, u2 starts at 1 and never
\* increases, so 0 <= u1 and u2 <= 1 after every boundary; a boundary with
\* p_i < 0 changes only u1, to max(u1, t), one with p_i > 0 only u2, to
\* min(u2, t); the call returns None iff a parallel boundary rejected or the
\* final u1 > u2 and otherwise (x1 + u1*dx, y1 + u1*dy, x1 + u2*dx,
\* y1 + u2*dy) with 0 <= u1 <= u2 <= 1; and the while loop and the for loop
\* variants return the same result.
C21_Parameters ==
  /\ []ParametersInRange
  /\ [][Tightening => TightenStep]_vars

\* both variants have returned a segment that both u1 and u2 have
\* shortened, after four divisions
C21_Witness ==
  /\ pc = "lb_call" /\ round = 2
  /\ nDiv = 4 /\ nDivFor = 4
  /\ FLt(F0, u1) /\ FLt(u1, u2) /\ FLt(u2, F1)
  /\ lbRes[1].kind = "segment" /\ lbForRes[1] = lbRes[1]

\* ------------------------------------------------------------------------
\* Bresenham line drawing: bresenham_line (lab8/1.py, and the same text in
\* Lab 7/1.py) and bresenham (lab3/3b.py), on integer endpoints
\* ------------------------------------------------------------------------

MaxPixel == 2
Pixels == (0 - MaxPixel)..MaxPixel
\* the arguments x0, y0, x1, y1
Endpoints == {<<a, b, c, d>> : a \in Pixels, b \in Pixels, c \in Pixels, d \in Pixels}

Abs(n) == IF n >= 0 THEN n ELSE 0 - n

\* lab8/1.py lines 6-11 and the p of line 14 or 25
bresenham_line_locals(a) ==
  [xes |-> <<>>, yes |-> <<>>,
   dx |-> Abs(a[3] - a[1]), dy |-> Abs(a[4] - a[2]),
   sx |-> IF a[3] >= a[1] THEN 1 ELSE 0 - 1,
   sy |-> IF a[4] >= a[2] THEN 1 ELSE 0 - 1,
   x |-> a[1], y |-> a[2],
   p |-> IF Abs(a[3] - a[1]) >= Abs(a[4] - a[2])
         THEN 2 * Abs(a[4] - a[2]) - Abs(a[3] - a[1])
         ELSE 2 * Abs(a[3] - a[1]) - Abs(a[4] - a[2])]

\* lab8/1.py lines 16-23: one pass of the loop over x
line_pass_x(l) ==
  [l EXCEPT !.xes = Append(l.xes, l.x), !.yes = Append(l.yes, l.y),
            !.x = l.x + l.sx,
            !.y = IF l.p >= 0 THEN l.y + l.sy ELSE l.y,
            !.p = IF l.p >= 0 THEN l.p + 2 * l.dy - 2 * l.dx ELSE l.p + 2 * l.dy]

\* lab8/1.py lines 27-34: one pass of the loop over y
line_pass_y(l) ==
  [l EXCEPT !.xes = Append(l.xes, l.x), !.yes = Append(l.yes, l.y),
            !.y = l.y + l.sy,
            !.x = IF l.p >= 0 THEN l.x + l.sx ELSE l.x,
            !.p = IF l.p >= 0 THEN l.p + 2 * l.dx - 2 * l.dy ELSE l.p + 2 * l.dx]

\* n passes of the loop of line 15 (when dx >= dy) or of line 26
RECURSIVE line_for(_, _)
line_for(n, l) ==
  IF n = 0 THEN l
  ELSE line_for(n - 1, IF l.dx >= l.dy THEN line_pass_x(l) ELSE line_pass_y(l))

\* range(dx + 1) of line 15, range(dy + 1) of line 26
line_range(l) == IF l.dx >= l.dy THEN l.dx + 1 ELSE l.dy + 1

\* line 36: the lists the two arrays returned are made of
line_return(l) == [kind |-> "points", v |-> [xes |-> l.xes, yes |-> l.yes]]

\* bresenham_line with range(dx) and range(dy) for its loops
bresenham_line_short(a) ==
  line_return(line_for(line_range(bresenham_line_locals(a)) - 1,
                       bresenham_line_locals(a)))

\* lab8/1.py lines 5-36
bresenham_line(a) ==
  line_return(line_for(line_range(bresenham_line_locals(a)), bresenham_line_locals(a)))

\* lab3/3b.py lines 4-12 and the p of line 15 or 26
bresenham_locals(a) ==
  [x |-> a[1], y |-> a[2],
   dx |-> Abs(a[3] - a[1]), dy |-> Abs(a[4] - a[2]),
   sx |-> IF a[3] > a[1] THEN 1 ELSE 0 - 1,
   sy |-> IF a[4] > a[2] THEN 1 ELSE 0 - 1,
   xes |-> <<>>, yes |-> <<>>,
   p |-> IF Abs(a[3] - a[1]) > Abs(a[4] - a[2])
         THEN 2 * Abs(a[4] - a[2]) - Abs(a[3] - a[1])
         ELSE 2 * Abs(a[3] - a[1]) - Abs(a[4] - a[2])]

\* the pass over x taking a step of y only when p > 0
bresenham_pass_x_strict(l) ==
  [l EXCEPT !.xes = Append(l.xes, l.x), !.yes = Append(l.yes, l.y),
            !.x = l.x + l.sx,
            !.y = IF l.p > 0 THEN l.y + l.sy ELSE l.y,
            !.p = IF l.p > 0 THEN l.p + 2 * (l.dy - l.dx) ELSE l.p + 2 * l.dy]

\* lab3/3b.py lines 17-24: one pass of the loop over x (xes, yes are x_points, y_points)
bresenham_pass_x(l) ==
  [l EXCEPT !.xes = Append(l.xes, l.x), !.yes = Append(l.yes, l.y),
            !.x = l.x + l.sx,
            !.y = IF l.p >= 0 THEN l.y + l.sy ELSE l.y,
            !.p = IF l.p >= 0 THEN l.p + 2 * (l.dy - l.dx) ELSE l.p + 2 * l.dy]

\* lab3/3b.py lines 28-35: one pass of the loop over y
bresenham_pass_y(l) ==
  [l EXCEPT !.xes = Append(l.xes, l.x), !.yes = Append(l.yes, l.y),
            !.y = l.y + l.sy,
            !.x = IF l.p >= 0 THEN l.x + l.sx ELSE l.x,
            !.p = IF l.p >= 0 THEN l.p + 2 * (l.dx - l.dy) ELSE l.p + 2 * l.dx]

\* n passes of the loop of line 16 (when dx > dy) or of line 27
RECURSIVE bresenham_for(_, _)
bresenham_for(n, l) ==
  IF n = 0 THEN l
  ELSE bresenham_for(n - 1, IF l.dx > l.dy THEN bresenham_pass_x(l)
                                            ELSE bresenham_pass_y(l))

\* range(dx + 1) of line 16, range(dy + 1) of line 27
bresenham_range(l) == IF l.dx > l.dy THEN l.dx + 1 ELSE l.dy + 1

\* lab3/3b.py lines 3-37
bresenham(a) ==
  line_return(bresenham_for(bresenham_range(bresenham_locals(a)), bresenham_locals(a)))

\* the caller draws one line with bresenham_line, then with bresenham
BresenhamLine ==
  /\ lpc = "line"
  /\ lineRes' = bresenham_line(ends)
  /\ lpc' = "bresenham"
  /\ UNCHANGED <<seqVars, thr, colorVars, fetchVars, ddaVars, ellVars, snakeVars, ends, bresRes>>

Bresenham ==
  /\ lpc = "bresenham"
  /\ bresRes' = bresenham(ends)
  /\ lpc' = "drawn"
  /\ UNCHANGED <<seqVars, thr, colorVars, fetchVars, ddaVars, ellVars, snakeVars, ends, lineRes>>

InitBres ==
  /\ NoCaller
  /\ thr = <<>>
  /\ NoColor
  /\ NoFetch
  /\ NoDda
  /\ NoEll
  /\ NoSnake
  /\ ends \in Endpoints
  /\ lpc = "line" /\ lineRes = Pending /\ bresRes = Pending

NextBres == BresenhamLine \/ Bresenham

SpecBres == InitBres /\ [][NextBres]_vars

\* ------------------------------------------------------------------------
\* C22
\* ------------------------------------------------------------------------

\* the points <<x, y>> of the lists of r
PointsOf(r) == [k \in 1..Len(r.v.xes) |-> <<r.v.xes[k], r.v.yes[k]>>]

\* the step from point a to point b: 1 along the major axis of e, at most 1
\* along the other
UnitStep(e, a, b) ==
  /\ Abs(e[3] - e[1]) >= Abs(e[4] - e[2]) =>
       Abs(b[1] - a[1]) = 1 /\ Abs(b[2] - a[2]) <= 1
  /\ Abs(e[4] - e[2]) >= Abs(e[3] - e[1]) =>
       Abs(b[2] - a[2]) = 1 /\ Abs(b[1] - a[1]) <= 1

Max(a, b) == IF a >= b THEN a ELSE b

\* pts joins the endpoints of e by unit steps
JoinsByUnitSteps(e, pts) ==
  /\ Len(pts) = Max(Abs(e[3] - e[1]), Abs(e[4] - e[2])) + 1
  /\ pts[1] = <<e[1], e[2]>>
  /\ pts[Len(pts)] = <<e[3], e[4]>>
  /\ \A k \in 1..(Len(pts) - 1) : UnitStep(e, pts[k], pts[k + 1])

\* C22: on integer endpoints, bresenham_line and bresenham return
\* max(|x1 - x0|, |y1 - y0|) + 1 points, the first (x0, y0), the last (x1, y1),
\* consecutive points exactly 1 apart along the major axis and 0 or 1 apart
\* along the minor axis
C22_UnitSteps ==
  /\ lineRes # Pending =>
       /\ Len(lineRes.v.xes) = Len(lineRes.v.yes)
       /\ JoinsByUnitSteps(ends, PointsOf(lineRes))
  /\ bresRes # Pending =>
       /\ Len(bresRes.v.xes) = Len(bresRes.v.yes)
       /\ JoinsByUnitSteps(ends, PointsOf(bresRes))

\* a line of slope 1/2 to the lower left has been drawn by both
C22_Witness ==
  /\ lpc = "drawn"
  /\ ends = <<MaxPixel, 1, 0, 0>>
  /\ Len(lineRes.v.xes) = MaxPixel + 1
  /\ Len(bresRes.v.xes) = MaxPixel + 1
  /\ lineRes.v.yes[1] = 1 /\ lineRes.v.yes[MaxPixel + 1] = 0

\* ------------------------------------------------------------------------
\* C23
\* ------------------------------------------------------------------------

\* C23: bresenham and bresenham_line return the same point sequence for the
\* same integer endpoints, also when dx = dy, dx = 0 or dy = 0
C23_SamePoints ==
  lpc = "drawn" =>
    /\ bresRes.v.xes = lineRes.v.xes
    /\ bresRes.v.yes = lineRes.v.yes

\* a diagonal to the lower left, where the variants loop over different axes,
\* has been drawn by both
C23_Witness ==
  /\ lpc = "drawn"
  /\ ends[3] < ends[1] /\ ends[1] - ends[3] = ends[2] - ends[4]
  /\ Len(bresRes.v.xes) = MaxPixel + 1

\* ------------------------------------------------------------------------
\* DDA line drawing: DDA (LAB8/Ex1.py) and dda (lab2/3.py; lab2/1.py and
\* lab3/3a.py hold the same statements), on the integer endpoints their
\* callers read
\* ------------------------------------------------------------------------

\* round(a) of a positive a < 2^26 whose a.h has k >= 1 fraction bits: the
\* nearest integer, the even one of two equally near
PyRoundMag(a, k) ==
  IF k > 27 THEN 0
  ELSE IF \/ (a.h % TwoTo(k)) * 2 > TwoTo(k)
          \/ /\ (a.h % TwoTo(k)) * 2 = TwoTo(k)
             /\ (a.l > 0 \/ (a.h \div TwoTo(k)) % 2 = 1)
       THEN (a.h \div TwoTo(k)) + 1
       ELSE a.h \div TwoTo(k)

\* round(a) for |a| < 2^26
PyRound(a) ==
  IF IsZero(a) THEN 0
  ELSE IF a.s = 0 THEN PyRoundMag(a, -a.e - 26)
  ELSE -PyRoundMag(a, -a.e - 26)

\* LAB8/Ex1.py lines 6-8: steps = int(max(abs(dx), abs(dy)))
DDA_steps(a) == Max(Abs(a[3] - a[1]), Abs(a[4] - a[2]))

\* LAB8/Ex1.py lines 5-14, for steps = st > 0
DDA_locals(a, st) ==
  [xlist |-> <<>>, ylist |-> <<>>, steps |-> st,
   xInc |-> FDiv(FromInt(a[3] - a[1]), FromInt(st)),
   yInc |-> FDiv(FromInt(a[4] - a[2]), FromInt(st)),
   x |-> FromInt(a[1]), y |-> FromInt(a[2])]

\* LAB8/Ex1.py lines 16-19: one pass of the loop
DDA_pass(l) ==
  [l EXCEPT !.xlist = Append(l.xlist, PyRound(l.x)),
            !.ylist = Append(l.ylist, PyRound(l.y)),
            !.x = FAdd(l.x, l.xInc),
            !.y = FAdd(l.y, l.yInc)]

RECURSIVE DDA_for(_, _)
DDA_for(n, l) == IF n = 0 THEN l ELSE DDA_for(n - 1, DDA_pass(l))

\* LAB8/Ex1.py lines 10 and 20: the lists the two arrays are made of, and steps
DDA_return(xl, yl, st) ==
  [kind |-> "points", v |-> [xlist |-> xl, ylist |-> yl, steps |-> st]]

DDA_result(l) == DDA_return(l.xlist, l.ylist, l.steps)

\* LAB8/Ex1.py lines 4-20
DDA(a) ==
  IF DDA_steps(a) = 0 THEN DDA_return(<<a[1]>>, <<a[2]>>, 0)
  ELSE DDA_result(DDA_for(DDA_steps(a) + 1, DDA_locals(a, DDA_steps(a))))

\* lab2/3.py lines 5-17, for steps = st > 0
dda_locals(a, st) ==
  [x_points |-> <<>>, y_points |-> <<>>,
   x_inc |-> FDiv(FromInt(a[3] - a[1]), FromInt(st)),
   y_inc |-> FDiv(FromInt(a[4] - a[2]), FromInt(st)),
   x |-> FromInt(a[1]), y |-> FromInt(a[2])]

\* lab2/3.py lines 20-23: one pass of the loop
dda_pass(l) ==
  [l EXCEPT !.x_points = Append(l.x_points, PyRound(l.x)),
            !.y_points = Append(l.y_points, PyRound(l.y)),
            !.x = FAdd(l.x, l.x_inc),
            !.y = FAdd(l.y, l.y_inc)]

RECURSIVE dda_for(_, _)
dda_for(n, l) == IF n = 0 THEN l ELSE dda_for(n - 1, dda_pass(l))

\* lab2/3.py line 25
dda_return(l) ==
  [kind |-> "points", v |-> [x_points |-> l.x_points, y_points |-> l.y_points]]

\* lab2/3.py lines 4-25: the division of line 13 raises when steps is 0
dda(a) ==
  IF DDA_steps(a) = 0 THEN ZeroDivisionError
  ELSE dda_return(dda_for(DDA_steps(a) + 1, dda_locals(a, DDA_steps(a))))

\* the caller draws one line with DDA, then with dda
DDACall ==
  /\ dpc = "DDA"
  /\ DDARes' = DDA(dends)
  /\ dpc' = "dda"
  /\ UNCHANGED <<seqVars, thr, colorVars, fetchVars, bresVars, ellVars, snakeVars, dends, ddaRes>>

ddaCall ==
  /\ dpc = "dda"
  /\ ddaRes' = dda(dends)
  /\ dpc' = "drawn"
  /\ UNCHANGED <<seqVars, thr, colorVars, fetchVars, bresVars, ellVars, snakeVars, dends, DDARes>>

InitDda ==
  /\ NoCaller
  /\ thr = <<>>
  /\ NoColor
  /\ NoFetch
  /\ NoBres
  /\ NoEll
  /\ NoSnake
  /\ dends \in Endpoints
  /\ dpc = "DDA" /\ DDARes = Pending /\ ddaRes = Pending

NextDda == DDACall \/ ddaCall

SpecDda == InitDda /\ [][NextDda]_vars

\* ------------------------------------------------------------------------
\* C24
\* ------------------------------------------------------------------------

\* the lists xs, ys are as stated for the arguments a: the start point alone
\* when steps is 0, else steps + 1 points from the rounded start point on
ListsAsStated(a, xs, ys) ==
  /\ DDA_steps(a) = 0 => xs = <<a[1]>> /\ ys = <<a[2]>>
  /\ DDA_steps(a) > 0 =>
       /\ Len(xs) = DDA_steps(a) + 1 /\ Len(ys) = DDA_steps(a) + 1
       /\ xs[1] = PyRound(FromInt(a[1])) /\ ys[1] = PyRound(FromInt(a[2]))

DDAAsStated ==
  DDARes # Pending =>
    /\ DDARes.kind = "points"
    /\ ListsAsStated(dends, DDARes.v.xlist, DDARes.v.ylist)
    /\ DDARes.v.steps = DDA_steps(dends)

ddaAsStated ==
  ddaRes # Pending =>
    /\ ddaRes.kind = "points"
    /\ ListsAsStated(dends, ddaRes.v.x_points, ddaRes.v.y_points)

\* C24: no DDA routine divides by zero: for all endpoints, identical ones
\* included, each returns a point list, the single start point (and, for DDA,
\* the step count 0) when steps is 0, else steps + 1 points from the rounded
\* start point on
C24_NeverDividesByZero == DDAAsStated /\ ddaAsStated

\* ------------------------------------------------------------------------
\* Midpoint ellipse: midpoint_ellipse of cglab5/lab5a.py (lab5c.py runs the
\* same two loops and keeps the points of the two regions in separate lists),
\* called with integer radii and the centre (0, 0)
\* ------------------------------------------------------------------------

MaxRadius == 5
Radii == {<<a, b>> : a \in 1..MaxRadius, b \in 1..MaxRadius}

FQuarter == FDiv(F1, FromInt(4))

\* lines 3-8: the four points appended for the offset (x, y), xc = yc = 0
plot_ellipse_points(a, b) == <<<<a, b>>, <<-a, b>>, <<a, -b>>, <<-a, -b>>>>

\* lines 9-11 for the locals l: the call plot_ellipse_points(xc, yc, x, y, xes, yes)
plot(l) ==
  [l EXCEPT !.xes = l.xes \o [k \in 1..4 |-> plot_ellipse_points(l.x, l.y)[k][1]],
            !.yes = l.yes \o [k \in 1..4 |-> plot_ellipse_points(l.x, l.y)[k][2]],
            !.passed = Append(l.passed, <<l.x, l.y>>)]

\* lines 14-24
ell_enter(r) ==
  plot([rx2 |-> r[1] * r[1], ry2 |-> r[2] * r[2], x |-> 0, y |-> r[2],
        xes |-> <<>>, yes |-> <<>>, passed |-> <<>>,
        p1 |-> FAdd(FromInt(r[2] * r[2] - r[1] * r[1] * r[2]),
                    FMul(FQuarter, FromInt(r[1] * r[1]))),
        p2 |-> F0])

\* line 26
in_region1(l) == 2 * l.ry2 * l.x <= 2 * l.rx2 * l.y

\* lines 27-33, with x already incremented in l.x + 1
region1_pass(l) ==
  plot(IF FLt(l.p1, F0)
       THEN [l EXCEPT !.x = l.x + 1,
                      !.p1 = FAdd(l.p1, FromInt(2 * l.ry2 * (l.x + 1) + l.ry2))]
       ELSE [l EXCEPT !.x = l.x + 1, !.y = l.y - 1,
                      !.p1 = FAdd(l.p1, FromInt(2 * l.ry2 * (l.x + 1)
                                                - 2 * l.rx2 * (l.y - 1) + l.ry2))])

\* (x + 0.5)**2 of line 36
half_square(a) == FMul(FAdd(FromInt(a), FHalf), FAdd(FromInt(a), FHalf))

\* line 36
region2_enter(l) ==
  [l EXCEPT !.p2 = FSub(FAdd(FMul(FromInt(l.ry2), half_square(l.x)),
                             FromInt(l.rx2 * (l.y - 1) * (l.y - 1))),
                        FromInt(l.rx2 * l.ry2))]

\* line 38
in_region2(l) == l.y >= 0

\* lines 39-45
region2_pass(l) ==
  plot(IF FGt(l.p2, F0)
       THEN [l EXCEPT !.y = l.y - 1,
                      !.p2 = FAdd(l.p2, FromInt(l.rx2 - 2 * l.rx2 * (l.y - 1)))]
       ELSE [l EXCEPT !.y = l.y - 1, !.x = l.x + 1,
                      !.p2 = FAdd(l.p2, FromInt(2 * l.ry2 * (l.x + 1) + l.rx2
                                                - 2 * l.rx2 * (l.y - 1)))])

EllCall ==
  /\ epc = "call"
  /\ ell' = ell_enter(radii)
  /\ epc' = "region1"
  /\ UNCHANGED <<seqVars, thr, colorVars, fetchVars, bresVars, ddaVars, snakeVars, radii, ellRes>>

Region1Pass ==
  /\ epc = "region1"
  /\ in_region1(ell)
  /\ ell' = region1_pass(ell)
  /\ UNCHANGED <<seqVars, thr, colorVars, fetchVars, bresVars, ddaVars, snakeVars, radii, epc, ellRes>>

Region1Exit ==
  /\ epc = "region1"
  /\ ~in_region1(ell)
  /\ ell' = region2_enter(ell)
  /\ epc' = "region2"
  /\ UNCHANGED <<seqVars, thr, colorVars, fetchVars, bresVars, ddaVars, snakeVars, radii, ellRes>>

Region2Pass ==
  /\ epc = "region2"
  /\ in_region2(ell)
  /\ ell' = region2_pass(ell)
  /\ UNCHANGED <<seqVars, thr, colorVars, fetchVars, bresVars, ddaVars, snakeVars, radii, epc, ellRes>>

\* line 47
EllReturn ==
  /\ epc = "region2"
  /\ ~in_region2(ell)
  /\ ellRes' = [kind |-> "points", v |-> [xes |-> ell.xes, yes |-> ell.yes]]
  /\ epc' = "returned"
  /\ UNCHANGED <<seqVars, thr, colorVars, fetchVars, bresVars, ddaVars, snakeVars, radii, ell>>

InitEll ==
  /\ NoCaller
  /\ thr = <<>>
  /\ NoColor
  /\ NoFetch
  /\ NoBres
  /\ NoDda
  /\ NoSnake
  /\ radii \in Radii
  /\ epc = "call" /\ ell = <<>> /\ ellRes = Pending

NextEll == EllCall \/ Region1Pass \/ Region1Exit \/ Region2Pass \/ EllReturn

SpecEll == InitEll /\ [][NextEll]_vars

\* ------------------------------------------------------------------------
\* C25
\* ------------------------------------------------------------------------

Called == epc \in {"region1", "region2", "returned"}

\* every offset passed lies in the first quadrant of the bounding box
OffsetsInBox ==
  \A k \in 1..Len(ell.passed) :
    /\ 0 <= ell.passed[k][1] /\ ell.passed[k][1] <= radii[1]
    /\ 0 <= ell.passed[k][2] /\ ell.passed[k][2] <= radii[2]

\* the offsets start at (0, ry); x never decreases, y never increases
OffsetsMonotone ==
  /\ ell.passed[1] = <<0, radii[2]>>
  /\ \A k \in 1..(Len(ell.passed) - 1) :
       /\ ell.passed[k][1] <= ell.passed[k + 1][1]
       /\ ell.passed[k + 1][2] <= ell.passed[k][2]

\* the loops end: every pass of region 1 increments x, which stays at most rx,
\* and every pass of region 2 decrements y, which stays at least -1
LoopsBounded ==
  /\ Len(ell.passed) <= radii[1] + radii[2] + 2
  /\ ell.x <= radii[1] /\ -1 <= ell.y

EllipseEnds == Called => OffsetsMonotone /\ LoopsBounded

\* C25: for integer rx, ry >= 1 both loops of midpoint_ellipse end and every
\* offset (x, y) passed to plot_ellipse_points has 0 <= x <= rx and
\* 0 <= y <= ry; the offsets start at (0, ry), x never decreases, y never
\* increases, and region 2 ends at y = 0 with no offset of y < 0
C25_OffsetsInQuadrant ==
  Called => OffsetsInBox /\ OffsetsMonotone /\ LoopsBounded

\* ------------------------------------------------------------------------
\* The snake game: main of snake_game.py on a board of Columns x Rows cells;
\* a pass of the main loop (lines 36-83) takes the events, handles them one
\* by one and moves the snake
\* ------------------------------------------------------------------------

Columns == 4
Rows == 3
\* foods the snake can eat
MaxScore == 2
\* KEYDOWN events one call of pygame.event.get() returns
MaxKeys == 2

CELL == 20
\* line 5, for the board of the model
WIDTH == Columns * CELL
HEIGHT == Rows * CELL

\* the keys of lines 45-52 and a key the game does not use
Keys == {"K_UP", "K_DOWN", "K_LEFT", "K_RIGHT", "K_SPACE"}

\* lines 45-52 without the tests of direction
on_keydown_unguarded(key, d, pd) ==
  IF key = "K_UP" THEN <<0, -CELL>>
  ELSE IF key = "K_DOWN" THEN <<0, CELL>>
  ELSE IF key = "K_LEFT" THEN <<-CELL, 0>>
  ELSE IF key = "K_RIGHT" THEN <<CELL, 0>>
  ELSE pd

\* lines 45-52: pending after a KEYDOWN event of key, for direction d and
\* pending pd
on_keydown(key, d, pd) ==
  IF key = "K_UP" /\ d # <<0, CELL>> THEN <<0, -CELL>>
  ELSE IF key = "K_DOWN" /\ d # <<0, -CELL>> THEN <<0, CELL>>
  ELSE IF key = "K_LEFT" /\ d # <<CELL, 0>> THEN <<-CELL, 0>>
  ELSE IF key = "K_RIGHT" /\ d # <<-CELL, 0>> THEN <<CELL, 0>>
  ELSE pd

\* lines 56-57
new_head(s, d) == <<s[1][1] + d[1], s[1][2] + d[2]>>

\* (x, y) in snake
InSnake(c, s) == \E k \in 1..Len(s) : s[k] = c

\* line 59 without the test new_head in snake
hits_wall(c, s) ==
  c[1] < 0 \/ c[1] >= WIDTH \/ c[2] < 0 \/ c[2] >= HEIGHT

\* line 59
hits(c, s) ==
  InSnake(c, s) \/ c[1] < 0 \/ c[1] >= WIDTH \/ c[2] < 0 \/ c[2] >= HEIGHT

\* range(0, WIDTH, CELL) x range(0, HEIGHT, CELL)
Grid ==
  {<<a * CELL, b * CELL>> : a \in 0..((WIDTH - 1) \div CELL),
                            b \in 0..((HEIGHT - 1) \div CELL)}

\* lines 15-20 with any cell drawn returned
random_food_position_any(s) == Grid

\* lines 15-20: the cells the function can return
random_food_position(s) == {c \in Grid : ~InSnake(c, s)}

\* lines 36-39: the next pass begins with the events of pygame.event.get()
GetEvents ==
  /\ spc = "loop"
  /\ spc' = "events"
  /\ handled' = 0
  /\ UNCHANGED <<seqVars, thr, colorVars, fetchVars, bresVars, ddaVars, ellVars,
                 snake, direction, pending, food, score, game_over>>

\* lines 44-52: one KEYDOWN event of the for loop
KeyDown ==
  /\ spc = "events"
  /\ handled < MaxKeys
  /\ \E key \in Keys : pending' = on_keydown(key, direction, pending)
  /\ handled' = handled + 1
  /\ UNCHANGED <<seqVars, thr, colorVars, fetchVars, bresVars, ddaVars, ellVars,
                 snake, direction, food, score, game_over, spc>>

\* lines 40-42: a QUIT event ends the program
Quit ==
  /\ spc = "events"
  /\ spc' = "exited"
  /\ UNCHANGED <<seqVars, thr, colorVars, fetchVars, bresVars, ddaVars, ellVars,
                 snake, direction, pending, food, score, game_over, handled>>

\* line 54 when the game is over: nothing moves
FrameOver ==
  /\ spc = "events" /\ game_over
  /\ spc' = "loop"
  /\ UNCHANGED <<seqVars, thr, colorVars, fetchVars, bresVars, ddaVars, ellVars,
                 snake, direction, pending, food, score, game_over, handled>>

\* lines 54-60: the new head hits the snake or leaves the board
MoveBlocked ==
  /\ spc = "events" /\ ~game_over
  /\ direction' = pending
  /\ hits(new_head(snake, pending), snake)
  /\ game_over' = TRUE
  /\ spc' = "loop"
  /\ UNCHANGED <<seqVars, thr, colorVars, fetchVars, bresVars, ddaVars, ellVars,
                 snake, pending, food, score, handled>>

\* lines 54-65: the new head is the food cell
MoveEat ==
  /\ spc = "events" /\ ~game_over
  /\ score < MaxScore
  /\ direction' = pending
  /\ ~hits(new_head(snake, pending), snake)
  /\ new_head(snake, pending) = food
  /\ snake' = <<new_head(snake, pending)>> \o snake
  /\ score' = score + 1
  /\ food' \in random_food_position(snake')
  /\ spc' = "loop"
  /\ UNCHANGED <<seqVars, thr, colorVars, fetchVars, bresVars, ddaVars, ellVars,
                 pending, game_over, handled>>

\* lines 54-67: the new head is a free cell without food
MoveOn ==
  /\ spc = "events" /\ ~game_over
  /\ direction' = pending
  /\ ~hits(new_head(snake, pending), snake)
  /\ new_head(snake, pending) # food
  /\ snake' = <<new_head(snake, pending)>> \o SubSeq(snake, 1, Len(snake) - 1)
  /\ spc' = "loop"
  /\ UNCHANGED <<seqVars, thr, colorVars, fetchVars, bresVars, ddaVars, ellVars,
                 pending, food, score, game_over, handled>>

\* lines 29-34, the snake in the middle row heading right from the middle column
InitSnake ==
  /\ NoCaller
  /\ thr = <<>>
  /\ NoColor
  /\ NoFetch
  /\ NoBres
  /\ NoDda
  /\ NoEll
  /\ snake = <<<<(Columns \div 2) * CELL, (Rows \div 2) * CELL>>,
               <<(Columns \div 2) * CELL - CELL, (Rows \div 2) * CELL>>,
               <<(Columns \div 2) * CELL - 2 * CELL, (Rows \div 2) * CELL>>>>
  /\ direction = <<CELL, 0>>
  /\ pending = <<CELL, 0>>
  /\ food \in random_food_position(snake)
  /\ score = 0
  /\ game_over = FALSE
  /\ spc = "loop"
  /\ handled = 0

NextSnake ==
  GetEvents \/ KeyDown \/ Quit \/ FrameOver \/ MoveBlocked \/ MoveEat \/ MoveOn

SpecSnake == InitSnake /\ [][NextSnake]_vars

\* ------------------------------------------------------------------------
\* C26
\* ------------------------------------------------------------------------

Reverse(d) == <<-d[1], -d[2]>>

\* a step that ends a pass of the main loop in which the game is not over:
\* the tick that applies pending
Tick == spc = "events" /\ spc' = "loop" /\ ~game_over

\* the cell next to the head in the direction d
Ahead(d) == <<snake[1][1] + d[1], snake[1][2] + d[2]>>

\* C26: whatever keys are pressed, several within one pass included, the
\* direction a tick applies is never the opposite of the direction the tick
\* before applied, so the new head is never the neck
C26_NoReversal ==
  [][Tick => /\ direction' # Reverse(direction)
             /\ Ahead(direction') # snake[2]]_vars

\* the snake has turned in a pass that handled several KEYDOWN events
C26_Witness ==
  /\ spc = "loop" /\ ~game_over
  /\ handled = MaxKeys
  /\ direction = <<0, -CELL>>
  /\ snake[1] = <<snake[2][1], snake[2][2] - CELL>>
  /\ snake[2] = <<snake[3][1] + CELL, snake[3][2]>>

\* ------------------------------------------------------------------------
\* C27
\* ------------------------------------------------------------------------

OnBoard(c) ==
  /\ 0 <= c[1] /\ c[1] < WIDTH /\ c[1] % CELL = 0
  /\ 0 <= c[2] /\ c[2] < HEIGHT /\ c[2] % CELL = 0

\* a and b are one CELL apart along one axis
Adjacent(a, b) ==
  \/ a[2] = b[2] /\ Abs(a[1] - b[1]) = CELL
  \/ a[1] = b[1] /\ Abs(a[2] - b[2]) = CELL

SnakeCells == {snake[k] : k \in 1..Len(snake)}

SnakeWellFormed ==
  /\ \A j, k \in 1..Len(snake) : j # k => snake[j] # snake[k]
  /\ \A k \in 1..Len(snake) : OnBoard(snake[k])
  /\ \A k \in 1..(Len(snake) - 1) : Adjacent(snake[k], snake[k + 1])

\* the tick's new head is off the board or a cell of the snake
Collides ==
  \/ Ahead(direction') \in SnakeCells
  \/ Ahead(direction')[1] < 0 \/ Ahead(direction')[1] >= WIDTH
  \/ Ahead(direction')[2] < 0 \/ Ahead(direction')[2] >= HEIGHT

\* C27: the cells of the snake are pairwise distinct, on the board and its
\* grid, consecutive cells one CELL apart along one axis; a move whose new
\* head leaves the board or hits a cell of the snake sets game_over and
\* leaves the snake as it is
C27_SnakeWellFormed ==
  /\ []SnakeWellFormed
  /\ [][(Tick /\ Collides) => (game_over' /\ snake' = snake)]_vars

\* the snake of five cells has run into itself
C27_Witness ==
  /\ game_over
  /\ Len(snake) = 3 + MaxScore
  /\ Ahead(direction) \in SnakeCells
  /\ OnBoard(Ahead(direction))

\* ------------------------------------------------------------------------
\* C28
\* ------------------------------------------------------------------------

FoodFree == OnBoard(food) /\ food \notin SnakeCells

\* C28: the food cell is on the grid of the board and no cell of the snake;
\* it changes only in a tick whose new head is the food cell
C28_FoodFree ==
  /\ []FoodFree
  /\ [][food' # food => (Tick /\ Ahead(direction') = food /\ snake'[1] = food)]_vars

\* the snake has eaten and moved on, the new food is on a free cell
C28_Witness ==
  /\ spc = "loop" /\ ~game_over
  /\ score = MaxScore
  /\ Len(snake) = 3 + MaxScore
  /\ FoodFree

====
